---- MODULE Spec2Model ----
(***************************************************************************)
(* Model of the ADB connector: DeviceManager (src/src/device_manager.py),  *)
(* ConnectionManager (src/src/connection_manager.py) and the polling and   *)
(* auto-promotion code of PhoneConnectorApp (src/main.py).                 *)
(*                                                                         *)
(* Text is modelled structurally.  A device identifier is a sequence of    *)
(* tokens: a USB serial is <<"A1">>, an IPv4 address is the sequence of    *)
(* its four octet strings (the result of ip.split('.')), and the network   *)
(* identifier f"{ip}:{port}" is ip \o <<":", port>>.  Bridge output is a   *)
(* sequence of characters.  Python's None is the sentinel None below.      *)
(***************************************************************************)
EXTENDS Integers, Sequences, FiniteSets, TLC

\* ------------------------------------------------------------------ bounds
\* number of monitor thread slots that can be alive at once
MaxThreads == 2
\* number of lines (after the header) of a bridge listing
MaxLines == 2
\* on_device_disconnected invocations counted per disappearance
MaxFired == 2
\* successful WiFi connects saved by save_wifi_config (its connection_count)
MaxSaves == 2
\* the wave size of scan_network_for_devices (50 at network_detector.py:121)
WaveLimit == 2

\* ------------------------------------------------------------------ values
None == <<"None">>
NoInfo == [device_id |-> None, connection_type |-> "None", status |-> "None"]

USB1 == <<"A1">>
USB2 == <<"B2">>
EmptyId == <<>>
PORT == "5555"
\* a port argument that is None or empty
NoPort == ""
\* phone addresses the bridge shell can report, and the host address
IP_SAME == <<"192", "168", "1", "7">>
IP_OTHER == <<"192", "168", "2", "7">>
PC_IP == <<"192", "168", "1", "5">>

\* f"{ip}:{port}"
ip_port(ip, port) == ip \o <<":", port>>

NET1 == ip_port(IP_SAME, PORT)

\* truthiness of a Python string or None
Truthy(s) == s # None /\ s # <<>>

\* `sub in s` for sequences
Contains(s, sub) ==
    \E i \in 1..(Len(s) - Len(sub) + 1) : SubSeq(s, i, i + Len(sub) - 1) = sub

\* str.lower(), character by character
LowerChar(c) ==
    CASE c = "C" -> "c"
      [] c = "O" -> "o"
      [] c = "N" -> "n"
      [] c = "E" -> "e"
      [] c = "T" -> "t"
      [] c = "D" -> "d"
      [] OTHER -> c

Lower(s) == [i \in 1..Len(s) |-> LowerChar(s[i])]

\* the positive acknowledgment literal of `adb connect`
CONNECTED == <<"c", "o", "n", "n", "e", "c", "t", "e", "d">>

\* outputs the bridge's connect subcommand can print
OutConnected == CONNECTED \o <<" ", "t", "o">>
OutAlready == <<"a", "l", "r", "e", "a", "d", "y", " ">> \o CONNECTED
OutUpper == <<"C", "o", "n", "n", "e", "c", "t", "e", "d">>
OutFailed == <<"f", "a", "i", "l", "e", "d", " ", "t", "o", " ", "c", "o", "n", "n", "e", "c", "t">>
OutEmpty == <<>>
BridgeOutputs == {OutConnected, OutAlready, OutUpper, OutFailed, OutEmpty}

\* ------------------------------------------------------------ environment
\* identifiers the ConnectionManager is called with
ConnIds == {USB1, NET1}
\* raw TCP probe: connect_ex = 0, connect_ex # 0, or an exception (e.g. int(port))
ProbeOutcomes == {"open", "refused", "raise"}
\* what one get_device_info battery of sub-queries ends with
InfoStatus == {"Connected", "Error"}
\* states a listing line can carry
LineStates == {"device", "unauthorized"}

\* listings of the bridge: sequences of id<TAB>state lines, no identifier twice
Listings(ids) ==
    {l \in UNION {[1..n -> [id : ids, state : LineStates]] : n \in 0..MaxLines} :
        \A i, j \in DOMAIN l : i # j => l[i].id # l[j].id}

\* -------------------------------------------------------------- the state
VARIABLES
    \* ConnectionManager.device_manager: DeviceManager.connected_devices (a list)
    \* and DeviceManager.device_info (a dict, here the set of its keys)
    dm_connected_devices,
    dm_device_info,
    \* ConnectionManager fields
    current_device,
    current_device_info,
    monitoring,
    monitor_thread,
    \* position of each _monitor_device thread
    mon_pc,
    \* the most recent call of a ConnectionManager method by a client:
    \* its arguments, what the bridge answered, the state it left, the fields
    \* it changed and the callbacks it invoked
    lastCall,
    \* position of the client thread inside disconnect_device / disconnect_all
    cl_pc,
    \* on_device_disconnected invocations since the last successful connect
    disc_fired,
    \* arguments and result of one call of a pure function
    pure_in,
    pure_out,
    \* the output of one `adb devices` run, and what the listing parsers made
    \* of it
    scan_in,
    scan_out,
    \* PhoneConnectorApp.device_manager.connected_devices (a second list)
    app_connected_devices,
    \* ConnectionManager.connected_devices (a set, connection_manager.py:12)
    cm_connected_devices,
    \* PhoneConnectorApp.wifi_config, the dict save_wifi_config assigns
    wifi_config,
    \* the content of wifi_config.json, the file save_wifi_config writes
    wifi_file,
    \* monitor_devices: the local last_devices
    last_devices,
    \* callbacks handed to root.after(0, ...) that await the Tk thread
    tk_queue,
    \* position of each thread that runs auto_connect_wifi / handle_connect_wifi
    worker,
    \* what the most recent poll tick saw and scheduled
    lastTick,
    \* the most recent auto-promotion attempt: its checks in order and outcome
    lastAttempt,
    \* position of the thread of monitor_devices and of the thread of
    \* auto_detect_wifi in their `while True` loops
    poll_pc,
    detect_pc

connVars == <<dm_connected_devices, dm_device_info, current_device,
              current_device_info, monitoring, monitor_thread, mon_pc, lastCall>>
monVars == <<cl_pc, disc_fired>>
pureVars == <<pure_in, pure_out, scan_in, scan_out>>
appVars == <<app_connected_devices, cm_connected_devices, wifi_config, wifi_file,
             last_devices, tk_queue, worker, lastTick, lastAttempt>>
loopVars == <<poll_pc, detect_pc>>
vars == <<connVars, monVars, pureVars, appVars, loopVars>>

\* the threads of PhoneConnectorApp that can append to its registry: the Tk
\* thread (auto_connect_device), the 10-second auto-detection thread and the
\* connect thread of handle_connect_wifi
Workers == {"tk", "loop", "btn"}

\* the values the variables of a part of the program hold while it is not run
IdleClient == [pc |-> "idle", id |-> None, counted |-> FALSE, after |-> "idle"]
NoInput ==
    [fn |-> "none", ip |-> None, port |-> NoPort, probe |-> "none", rc |-> 0,
     out |-> <<>>, tmo |-> FALSE]
NoOutput == [done |-> FALSE, ok |-> FALSE, bridge_invoked |-> FALSE]
NoConfig == [last_ip |-> None, last_port |-> NoPort, connection_count |-> 0]
IdleWorker ==
    [pc |-> "idle", ip |-> None, usb |-> None, absent |-> FALSE]
NoTick ==
    [fresh |-> FALSE, ok |-> FALSE, raised |-> FALSE, current |-> {}, last |-> {},
     scheduled |-> <<>>]
NoAttempt ==
    [fresh |-> FALSE, by |-> "none", usb |-> None, ip |-> None, test |-> FALSE,
     probe |-> "none", rc |-> 0, out |-> <<>>, outcome |-> "none",
     raised |-> FALSE, checks |-> <<>>, status |-> "none", changed |-> {}]

MonIdle == cl_pc = IdleClient /\ disc_fired = 0
NoListing == [rc |-> 0, recs |-> <<>>]
NoScan ==
    [done |-> FALSE, result |-> <<>>, list |-> <<>>, raised |-> FALSE,
     listed |-> FALSE, devices |-> <<>>]
ScanIdle == scan_in = NoListing /\ scan_out = NoScan
PureIdle == pure_in = NoInput /\ pure_out = NoOutput /\ ScanIdle
AppIdle ==
    /\ app_connected_devices = <<>>
    /\ cm_connected_devices = {}
    /\ wifi_config = NoConfig
    /\ wifi_file = NoConfig
    /\ last_devices = {}
    /\ tk_queue = <<>>
    /\ worker = [t \in Workers |-> IdleWorker]
    /\ lastTick = NoTick
    /\ lastAttempt = NoAttempt
    /\ poll_pc = "try"
    /\ detect_pc = "try"

Threads == 1..MaxThreads

InList(d, l) == \E i \in DOMAIN l : l[i] = d

Remove(l, d) ==
    IF InList(d, l)
    THEN LET k == CHOOSE i \in DOMAIN l : l[i] = d /\ \A j \in 1..(i - 1) : l[j] # d
         IN SubSeq(l, 1, k - 1) \o SubSeq(l, k + 1, Len(l))
    ELSE l

Snapshot ==
    [current_device |-> current_device,
     current_device_info |-> current_device_info,
     monitoring |-> monitoring,
     connected |-> dm_connected_devices]

\* ----------------------------------------------------------- DeviceManager
\* get_device_info: the dict it builds; `status` is 'Connected' unless a
\* sub-query raised
get_device_info(d, st) ==
    [device_id |-> d,
     connection_type |-> IF Contains(d, <<":">>) THEN "WiFi" ELSE "USB",
     status |-> st]

\* self.device_info[device_id] = info
CachePut(cache, d, info) == cache \cup {d}

\* del self.device_info[device_id]
CacheDel(cache, d) == cache \ {d}

\* connect_usb, lines 170-172: "if device_id not in list: list.append(device_id)"
add_if_absent(l, d) == IF InList(d, l) THEN l ELSE Append(l, d)

\* connect_usb: result, the registry after it, and whether the echo was run
connect_usb(l, cache, d, echo, st) ==
    IF InList(d, l)
    THEN [ok |-> TRUE, list |-> l, cache |-> cache, echo_run |-> FALSE]
    ELSE IF echo = "ok"
    THEN [ok |-> TRUE, list |-> add_if_absent(l, d),
          cache |-> CachePut(cache, d, get_device_info(d, st)), echo_run |-> TRUE]
    ELSE [ok |-> FALSE, list |-> l, cache |-> cache, echo_run |-> TRUE]

\* a test of the bridge's answer that trusts the exit code alone
exit_code_alone(rc, out) == rc = 0

\* connect_wifi, line 211: the test applied to the bridge's answer
connect_acknowledged(rc, out) == rc = 0 /\ Contains(Lower(out), CONNECTED)

\* connect_wifi: the bridge's connect subcommand is run only after the probe
\* returned 0; `tmo` is the 15 s subprocess timeout (an exception)
connect_wifi_invokes_bridge(probe) == probe = "open"

connect_wifi(probe, rc, out, tmo) ==
    IF ~connect_wifi_invokes_bridge(probe)
    THEN [ok |-> FALSE, bridge_invoked |-> FALSE]
    ELSE [ok |-> ~tmo /\ connect_acknowledged(rc, out), bridge_invoked |-> TRUE]

\* disconnect_device on the registry: always returns True
dm_disconnect_list(l, d) == Remove(l, d)

\* ------------------------------------------------------- ConnectionManager
\* The methods are written as transformers of a working copy of the object's
\* state; `cbs` collects the callbacks invoked and `steps` the effects, in
\* the order the method performs them.
Work ==
    [list |-> dm_connected_devices, cache |-> dm_device_info,
     current_device |-> current_device,
     current_device_info |-> current_device_info,
     monitoring |-> monitoring, monitor_thread |-> monitor_thread,
     mon_pc |-> mon_pc, cbs |-> <<>>, steps |-> <<>>]

SnapshotOf(w) ==
    [current_device |-> w.current_device,
     current_device_info |-> w.current_device_info,
     monitoring |-> w.monitoring,
     connected |-> w.list]

DeadSlots(pc) == {t \in Threads : pc[t] = "dead"}
FreeSlot(pc) == CHOOSE t \in DeadSlots(pc) : \A u \in DeadSlots(pc) : t <= u

\* start_monitoring: a no-op while the flag is set, else a new thread
start_monitoring(w) ==
    IF w.monitoring
    THEN [w EXCEPT !.steps = Append(@, "start_monitoring")]
    ELSE [w EXCEPT !.monitoring = TRUE,
                   !.monitor_thread = FreeSlot(w.mon_pc),
                   !.mon_pc[FreeSlot(w.mon_pc)] = "while",
                   !.steps = Append(@, "start_monitoring")]

\* stop_monitoring: clears the flag; join(timeout=1) returns whether or not
\* the thread has left its 30 s sleep, and the handle is dropped
stop_monitoring(w) ==
    [w EXCEPT !.monitoring = FALSE, !.monitor_thread = 0,
              !.steps = Append(@, "stop_monitoring")]

set_current(w, d) ==
    [w EXCEPT !.current_device = d, !.steps = Append(@, "set_current")]

store_info(w, info) ==
    [w EXCEPT !.current_device_info = info,
              !.cache = CachePut(@, info.device_id, info),
              !.steps = Append(@, "store_info")]

clear_current(w) ==
    [w EXCEPT !.current_device = None, !.current_device_info = NoInfo,
              !.steps = Append(@, "clear_current")]

\* self.on_device_connected(device_id, self.current_device_info)
fire_connected(w, d) ==
    [w EXCEPT !.cbs = Append(@, [name |-> "on_device_connected", id |-> d,
                                 info |-> w.current_device_info]),
              !.steps = Append(@, "callback")]

fire_disconnected(w, arg) ==
    [w EXCEPT !.cbs = Append(@, [name |-> "on_device_disconnected", id |-> arg,
                                 info |-> NoInfo]),
              !.steps = Append(@, "callback")]

\* a success branch that notifies the callback before it starts the monitor
connect_success_notify_first(w, d, info) ==
    start_monitoring(fire_connected(store_info(set_current(w, d), info), d))

\* connect_device, lines 43-54: the success branch
connect_success(w, d, info) ==
    fire_connected(start_monitoring(store_info(set_current(w, d), info)), d)

\* connect_device, lines 36-41: the transport connect
connect_transport(w, d, ctype, ip, port, ans) ==
    IF ctype = "usb"
    THEN LET r == connect_usb(w.list, w.cache, d, ans.echo, ans.st)
         IN [ok |-> r.ok, w |-> [w EXCEPT !.list = r.list, !.cache = r.cache],
             echo_run |-> r.echo_run, bridge_invoked |-> FALSE, probed |-> FALSE]
    ELSE IF ~Truthy(ip) \/ port = NoPort
    THEN [ok |-> FALSE, w |-> w, echo_run |-> FALSE, bridge_invoked |-> FALSE,
          probed |-> FALSE]
    ELSE LET r == connect_wifi(ans.probe, ans.rc, ans.out, ans.tmo)
         IN [ok |-> r.ok, w |-> w, echo_run |-> FALSE,
             bridge_invoked |-> r.bridge_invoked, probed |-> TRUE]

\* connect_device: `cbraise` says whether the registered on_device_connected
\* callable raises; the exception is caught at line 63 and False is returned
connect_device(w, d, ctype, ip, port, ans, st, cbraise) ==
    LET t == connect_transport(w, d, ctype, ip, port, ans)
    IN IF t.ok
       THEN [result |-> ~cbraise,
             w |-> connect_success(t.w, d, get_device_info(d, st)), t |-> t]
       ELSE [result |-> FALSE, w |-> t.w, t |-> t]

\* what the bridge and the device answer during one connect_device call
NoAnswer ==
    [echo |-> "none", st |-> "none", probe |-> "none", rc |-> 0, out |-> <<>>,
     tmo |-> FALSE]

UsbAnswers ==
    {[NoAnswer EXCEPT !.echo = e, !.st = s] : e \in {"fail", "timeout"}, s \in {"none"}}
    \cup {[NoAnswer EXCEPT !.echo = "ok", !.st = s] : s \in InfoStatus}

WifiAnswers ==
    {[NoAnswer EXCEPT !.probe = p] : p \in {"refused", "raise"}}
    \cup {[NoAnswer EXCEPT !.probe = "open", !.tmo = TRUE]}
    \cup {[NoAnswer EXCEPT !.probe = "open", !.rc = r, !.out = o] :
            r \in {0, 1}, o \in BridgeOutputs}

\* the answers drawn when connect_device is called: one of each kind
\* (NoAnswer stands for a call that never reaches the network)
ConnWifiAnswers ==
    {NoAnswer}
    \cup {a \in WifiAnswers : a.out \in {OutConnected, OutFailed} \/ a.probe # "open" \/ a.tmo}

\* the (ip, port) arguments connect_device is called with
WifiArgs == {<<None, PORT>>, <<IP_SAME, NoPort>>, <<IP_SAME, PORT>>}

\* assign the object's fields from a working copy
Apply(w) ==
    /\ dm_connected_devices' = w.list
    /\ dm_device_info' = w.cache
    /\ current_device' = w.current_device
    /\ current_device_info' = w.current_device_info
    /\ monitoring' = w.monitoring
    /\ monitor_thread' = w.monitor_thread
    /\ mon_pc' = w.mon_pc

\* a disconnect that runs the bridge's disconnect subcommand for every identifier
dm_disconnect_always_bridge(w, d) ==
    [w EXCEPT !.list = dm_disconnect_list(@, d), !.cache = CacheDel(@, d),
              !.steps = Append(@, "bridge_disconnect")]

\* DeviceManager.disconnect_device on the working copy
dm_disconnect_device(w, d) ==
    [w EXCEPT !.list = dm_disconnect_list(@, d), !.cache = CacheDel(@, d),
              !.steps = IF Contains(d, <<":">>)
                        THEN Append(@, "bridge_disconnect") ELSE @]

\* ConnectionManager.disconnect_device
disconnect_device(w, d) ==
    LET w1 == dm_disconnect_device(w, d)
    IN IF d = w1.current_device
       THEN fire_disconnected(stop_monitoring(clear_current(w1)), d)
       ELSE w1

\* DeviceManager.disconnect_all: disconnect_device for each entry of a copy
RECURSIVE dm_disconnect_each(_, _)
dm_disconnect_each(w, todo) ==
    IF todo = <<>> THEN w
    ELSE dm_disconnect_each(dm_disconnect_device(w, Head(todo)), Tail(todo))

\* ConnectionManager.disconnect_all
disconnect_all(w) ==
    fire_disconnected(
        stop_monitoring(clear_current(dm_disconnect_each(w, w.list))), None)

\* scan_devices, lines 28-40: the identifiers of the lines whose state is
\* the literal 'device', in input order
RECURSIVE parse_listing(_)
parse_listing(lines) ==
    IF lines = <<>> THEN <<>>
    ELSE IF Truthy(Head(lines).id) /\ Head(lines).state = "device"
    THEN <<Head(lines).id>> \o parse_listing(Tail(lines))
    ELSE parse_listing(Tail(lines))

scan_devices(w, rc, lines) ==
    IF rc = 0 THEN [w EXCEPT !.list = parse_listing(lines)] ELSE w

\* ---------------------------------------------- client calls, one per step
FrameFields == {"current_device", "current_device_info", "monitoring", "connected"}

\* the fields of the object a call left different from what it found
Changed(w) == {f \in FrameFields : SnapshotOf(w)[f] # Snapshot[f]}

NoTransport ==
    [ok |-> FALSE, probed |-> FALSE, bridge_invoked |-> FALSE, echo_run |-> FALSE]

\* lastCall: the call, its result, the state it left (post), the fields it
\* changed, the callbacks it invoked and its effects in order (steps)
CallRecord(op, d, ctype, result, w, t, repeat, prev_info) ==
    [op |-> op, id |-> d, ctype |-> ctype, result |-> result, fresh |-> TRUE,
     post |-> SnapshotOf(w), changed |-> Changed(w),
     cbs |-> w.cbs, steps |-> w.steps,
     transport_ok |-> t.ok, probed |-> t.probed,
     bridge_invoked |-> t.bridge_invoked, echo_run |-> t.echo_run,
     repeat |-> repeat, prev_info |-> prev_info,
     was_current |-> current_device = d]

NoSnapshot ==
    [current_device |-> None, current_device_info |-> NoInfo,
     monitoring |-> FALSE, connected |-> <<>>]

\* no client call is the most recent step: a monitor thread ran since
NoCall ==
    [op |-> "none", id |-> None, ctype |-> "none", result |-> FALSE,
     fresh |-> FALSE, post |-> NoSnapshot, changed |-> {}, cbs |-> <<>>,
     steps |-> <<>>, transport_ok |-> FALSE, probed |-> FALSE,
     bridge_invoked |-> FALSE, echo_run |-> FALSE, repeat |-> FALSE,
     prev_info |-> NoInfo, was_current |-> FALSE]

\* a second connect_device in a row (nothing ran in between) for an identifier
\* that is connected
IsRepeat(d) ==
    /\ lastCall.fresh
    /\ lastCall.op = "connect_device"
    /\ lastCall.result
    /\ lastCall.id = d
    /\ InList(d, dm_connected_devices)

ConnectDevice(d, ctype, ip, port, ans, st, cbraise) ==
    LET t0 == connect_transport(Work, d, ctype, ip, port, ans)
        r == connect_device(Work, d, ctype, ip, port, ans, st, cbraise)
        t == [ok |-> t0.ok, probed |-> t0.probed,
              bridge_invoked |-> t0.bridge_invoked, echo_run |-> t0.echo_run]
    IN /\ (t0.ok /\ ~monitoring) => DeadSlots(mon_pc) # {}
       /\ Apply(r.w)
       /\ lastCall' = CallRecord("connect_device", d, ctype, r.result, r.w, t,
                                 IsRepeat(d),
                                 IF IsRepeat(d) THEN lastCall.cbs[1].info ELSE NoInfo)
       /\ UNCHANGED <<monVars, pureVars, appVars, loopVars>>

DisconnectDevice(d) ==
    LET w == disconnect_device(Work, d)
    IN /\ Apply(w)
       /\ lastCall' = CallRecord("disconnect_device", d, "none", TRUE, w, NoTransport,
                                 FALSE, NoInfo)
       /\ UNCHANGED <<monVars, pureVars, appVars, loopVars>>

DisconnectAll ==
    LET w == disconnect_all(Work)
    IN /\ Apply(w)
       /\ lastCall' = CallRecord("disconnect_all", None, "none", TRUE, w, NoTransport,
                                 FALSE, NoInfo)
       /\ UNCHANGED <<monVars, pureVars, appVars, loopVars>>

ScanDevices(rc, lines) ==
    LET w == scan_devices(Work, rc, lines)
    IN /\ Apply(w)
       /\ lastCall' = CallRecord("scan_devices", None, "none",
                                 IF rc = 0 THEN w.list ELSE <<>>, w, NoTransport,
                                 FALSE, NoInfo)
       /\ UNCHANGED <<monVars, pureVars, appVars, loopVars>>

StopMonitoring ==
    LET w == stop_monitoring(Work)
    IN /\ Apply(w)
       /\ lastCall' = CallRecord("stop_monitoring", None, "none", TRUE, w, NoTransport,
                                 FALSE, NoInfo)
       /\ UNCHANGED <<monVars, pureVars, appVars, loopVars>>

\* one pass of the _monitor_device loop of thread t, lines 151-167
monitor_pass(w, t, st) ==
    IF ~(w.monitoring /\ Truthy(w.current_device))
    THEN [w EXCEPT !.mon_pc[t] = "dead"]
    ELSE IF ~InList(w.current_device, w.list)
    THEN fire_disconnected(
            [w EXCEPT !.current_device = None, !.current_device_info = NoInfo,
                      !.monitoring = FALSE, !.mon_pc[t] = "dead"], None)
    ELSE store_info(w, get_device_info(w.current_device, st))

MonitorPass(t, st) ==
    /\ mon_pc[t] = "while"
    /\ Apply(monitor_pass(Work, t, st))
    /\ lastCall' = NoCall
    /\ UNCHANGED <<monVars, pureVars, appVars, loopVars>>

ConnIdle ==
    /\ dm_connected_devices = <<>>
    /\ dm_device_info = {}
    /\ current_device = None
    /\ current_device_info = NoInfo
    /\ monitoring = FALSE
    /\ monitor_thread = 0
    /\ mon_pc = [t \in Threads |-> "dead"]
    /\ lastCall = NoCall

InitConn == ConnIdle /\ MonIdle /\ PureIdle /\ AppIdle

\* the device's answer to the info queries and the behaviour of the registered
\* callback matter only when the transport connect succeeded
ConnectCall(d, ctype, ip, port, ans) ==
    IF connect_transport(Work, d, ctype, ip, port, ans).ok
    THEN \E st \in InfoStatus, cbraise \in BOOLEAN :
            ConnectDevice(d, ctype, ip, port, ans, st, cbraise)
    ELSE ConnectDevice(d, ctype, ip, port, ans, "Connected", FALSE)

\* the echo is answered only when it is run (the identifier is not registered)
ConnectUsb ==
    \E d \in ConnIds, ans \in UsbAnswers \cup {NoAnswer} :
        /\ InList(d, dm_connected_devices) <=> ans = NoAnswer
        /\ ConnectCall(d, "usb", None, NoPort, ans)

ConnectWifi ==
    \E d \in {NET1, USB1}, a \in WifiArgs, ans \in ConnWifiAnswers :
        /\ (~Truthy(a[1]) \/ a[2] = NoPort) <=> ans = NoAnswer
        /\ ConnectCall(d, "wifi", a[1], a[2], ans)

\* a rescan: every listing of ready devices, one with an unauthorized device,
\* and a failed listing
Scan ==
    \/ \E lines \in Listings(ConnIds) :
          /\ \A i \in DOMAIN lines : lines[i].state = "device" \/ Len(lines) = 1
          /\ ScanDevices(0, lines)
    \/ ScanDevices(1, <<>>)

NextConn ==
    \/ ConnectUsb
    \/ ConnectWifi
    \/ \E d \in ConnIds : DisconnectDevice(d)
    \/ DisconnectAll
    \/ Scan
    \/ StopMonitoring
    \/ \E t \in Threads, st \in InfoStatus : MonitorPass(t, st)

SpecConn == InitConn /\ [][NextConn]_vars

C6_FailedConnectChangesNothing ==
    (lastCall.op = "connect_device" /\ ~lastCall.result) =>
        /\ lastCall.changed = {}
        /\ lastCall.cbs = <<>>

\* C7: a second connect_device in a row for an identifier that is already
\* connected leaves the connected list and the current device as they were
\* and invokes no callback that carries a state other than the first one's.
C7_RepeatedConnectIsNoOp ==
    lastCall.repeat =>
        /\ "connected" \notin lastCall.changed
        /\ "current_device" \notin lastCall.changed
        /\ \A i \in DOMAIN lastCall.cbs : lastCall.cbs[i].info = lastCall.prev_info

C17_WitnessOther ==
    /\ lastCall.op = "disconnect_device"
    /\ ~lastCall.was_current
    /\ "connected" \in lastCall.changed
    /\ Truthy(current_device)

\* C23: the transport is the network exactly when the identifier holds a
\* colon: the current device recorded by a successful network connect_device
\* is a colon identifier and its info dict says WiFi, and the one recorded by
\* a successful USB connect of a colon-free identifier says USB.
C23_ColonIffNetwork ==
    (lastCall.op = "connect_device" /\ lastCall.result) =>
        /\ lastCall.ctype = "wifi" =>
            /\ Contains(lastCall.post.current_device, <<":">>)
            /\ lastCall.post.current_device_info.connection_type = "WiFi"
        /\ (lastCall.ctype = "usb" /\ ~Contains(lastCall.id, <<":">>)) =>
            lastCall.post.current_device_info.connection_type = "USB"

\* C21: scan_devices does not raise; a listing that exits non-zero or fails
\* gives the empty sequence; the sequence returned is always what
\* connected_devices holds after the call.
C21_ScanReturnsTheRegistry ==
    lastCall.op = "scan_devices" => lastCall.result = dm_connected_devices

\* ------------------------------------------------- DeviceManager.connect_wifi
\* One call of connect_wifi on its own: the arguments and what the network
\* and the bridge answer are drawn at the start, the call is one step.
PureRcs == {0, 1, 255}

WifiCalls ==
    {[fn |-> "connect_wifi", ip |-> ip, port |-> PORT, probe |-> p, rc |-> r,
      out |-> o, tmo |-> FALSE] :
        ip \in {IP_SAME, IP_OTHER}, p \in ProbeOutcomes, r \in PureRcs,
        o \in BridgeOutputs}
    \cup {[fn |-> "connect_wifi", ip |-> ip, port |-> PORT, probe |-> p, rc |-> 0,
           out |-> <<>>, tmo |-> TRUE] :
        ip \in {IP_SAME, IP_OTHER}, p \in ProbeOutcomes}

CallConnectWifi ==
    /\ pure_in.fn = "connect_wifi"
    /\ ~pure_out.done
    /\ LET r == connect_wifi(pure_in.probe, pure_in.rc, pure_in.out, pure_in.tmo)
       IN pure_out' = [done |-> TRUE, ok |-> r.ok, bridge_invoked |-> r.bridge_invoked]
    /\ UNCHANGED <<pure_in, scan_in, scan_out, connVars, monVars, appVars, loopVars>>

InitPure ==
    /\ pure_in \in WifiCalls
    /\ pure_out = NoOutput
    /\ ScanIdle
    /\ ConnIdle /\ MonIdle /\ AppIdle

NextPure == CallConnectWifi

SpecPure == InitPure /\ [][NextPure]_vars

\* the output holds the nine letters of "connected" in a row, in either case
HasMarkerAnyCase(out) ==
    \E i \in 1..(Len(out) - 8) :
        \A k \in 1..9 : LowerChar(out[i + k - 1]) = CONNECTED[k]

\* the output holds the literal "connected", letter for letter
HasLiteral(out) ==
    \E i \in 1..(Len(out) - 8) : \A k \in 1..9 : out[i + k - 1] = CONNECTED[k]

\* C8 (as stated): connect_wifi returns true if and only if the TCP probe
\* succeeded, the bridge's connect subcommand exited 0 and its output contains
\* the literal "connected"; the subcommand is not run when the probe failed.
C8_TrueIffLiteral ==
    pure_out.done =>
        /\ pure_out.ok <=> /\ pure_in.probe = "open"
                           /\ ~pure_in.tmo
                           /\ pure_in.rc = 0
                           /\ HasLiteral(pure_in.out)
        /\ pure_in.probe # "open" => ~pure_out.bridge_invoked

\* C8 (amended): connect_wifi returns true if and only if the TCP probe
\* succeeded, the bridge's connect subcommand exited 0 and its output, with
\* letter case ignored, contains "connected"; the subcommand is not run when
\* the probe failed, and exit code 0 without the marker yields false.
C8_TrueIffMarkerAnyCase ==
    pure_out.done =>
        /\ pure_out.ok <=> /\ pure_in.probe = "open"
                           /\ ~pure_in.tmo
                           /\ pure_in.rc = 0
                           /\ HasMarkerAnyCase(pure_in.out)
        /\ pure_in.probe # "open" => ~pure_out.bridge_invoked
        /\ (pure_in.rc = 0 /\ ~HasMarkerAnyCase(pure_in.out)) => ~pure_out.ok

\* the bridge exited 0 and printed "Connected" with a capital: true is returned
C8_Witness ==
    /\ pure_out.done
    /\ pure_out.ok
    /\ pure_in.out = OutUpper

\* --------------------------------- the monitor thread, statement by statement
\* _monitor_device runs concurrently with the client's calls.  Each thread t
\* is at one of: "while" (line 151), "check" (line 154), "clear" (lines
\* 156-158), "fire" (lines 160-162), "sleep" (line 165), "except" (lines
\* 168-170), or "dead".
\* disconnect_device, disconnect_all and stop_monitoring of the client are
\* split at the same grain; connect_device, scan_devices and start_monitoring
\* are single steps of the client.
Fired(n) == IF n < MaxFired THEN n + 1 ELSE n

\* line 151: while self.monitoring and self.current_device
MonWhile(t) ==
    /\ mon_pc[t] = "while"
    /\ mon_pc' = [mon_pc EXCEPT ![t] =
                    IF monitoring /\ Truthy(current_device) THEN "check" ELSE "dead"]
    /\ UNCHANGED <<dm_connected_devices, dm_device_info, current_device,
                   current_device_info, monitoring, monitor_thread, lastCall,
                   monVars, pureVars, appVars, loopVars>>

\* a membership test that never finds the device missing
MonCheckPresent(t) ==
    /\ mon_pc[t] = "check"
    /\ mon_pc' = [mon_pc EXCEPT ![t] = "sleep"]
    /\ UNCHANGED <<dm_connected_devices, dm_device_info, current_device,
                   current_device_info, monitoring, monitor_thread, lastCall,
                   monVars, pureVars, appVars, loopVars>>

\* line 154: if self.current_device not in self.device_manager.connected_devices
MonCheck(t) ==
    /\ mon_pc[t] = "check"
    /\ mon_pc' = [mon_pc EXCEPT ![t] =
                    IF ~InList(current_device, dm_connected_devices)
                    THEN "clear" ELSE "sleep"]
    /\ UNCHANGED <<dm_connected_devices, dm_device_info, current_device,
                   current_device_info, monitoring, monitor_thread, lastCall,
                   monVars, pureVars, appVars, loopVars>>

\* lines 156-158
MonClear(t) ==
    /\ mon_pc[t] = "clear"
    /\ current_device' = None
    /\ current_device_info' = NoInfo
    /\ monitoring' = FALSE
    /\ mon_pc' = [mon_pc EXCEPT ![t] = "fire"]
    /\ UNCHANGED <<dm_connected_devices, dm_device_info, monitor_thread, lastCall,
                   monVars, pureVars, appVars, loopVars>>

\* an exception that ends the thread it was raised in
dies_on_exception(t) == "dead"

\* lines 168-170: the except clause prints, sleeps 5 s and falls back to the
\* loop test of line 151
on_monitor_exception(t) == "while"

\* lines 160-162: the callback, then break; a callback that raises lands in
\* the except clause of line 168
MonFire(t, raised) ==
    /\ mon_pc[t] = "fire"
    /\ disc_fired' = Fired(disc_fired)
    /\ mon_pc' = [mon_pc EXCEPT ![t] = IF raised THEN "except" ELSE "dead"]
    /\ UNCHANGED <<dm_connected_devices, dm_device_info, current_device,
                   current_device_info, monitoring, monitor_thread, lastCall,
                   cl_pc, pureVars, appVars, loopVars>>

\* lines 168-170, after a callback raised
MonExcept(t) ==
    /\ mon_pc[t] = "except"
    /\ mon_pc' = [mon_pc EXCEPT ![t] = on_monitor_exception(t)]
    /\ UNCHANGED <<dm_connected_devices, dm_device_info, current_device,
                   current_device_info, monitoring, monitor_thread, lastCall,
                   monVars, pureVars, appVars, loopVars>>

\* lines 165-167: the 30 s sleep ends; refresh_device_info if still monitoring
MonWake(t, st) ==
    /\ mon_pc[t] = "sleep"
    /\ IF monitoring /\ Truthy(current_device)
       THEN /\ current_device_info' = get_device_info(current_device, st)
            /\ dm_device_info' =
                 CachePut(dm_device_info, current_device, current_device_info')
       ELSE UNCHANGED <<current_device_info, dm_device_info>>
    /\ mon_pc' = [mon_pc EXCEPT ![t] = "while"]
    /\ UNCHANGED <<dm_connected_devices, current_device, monitoring,
                   monitor_thread, lastCall, monVars, pureVars, appVars, loopVars>>

\* the client: connect_device over USB, one step
ClientConnect(d, ans, st) ==
    LET t0 == connect_transport(Work, d, "usb", None, NoPort, ans)
        r == connect_device(Work, d, "usb", None, NoPort, ans, st, FALSE)
    IN /\ cl_pc.pc = "idle"
       /\ InList(d, dm_connected_devices) <=> ans = NoAnswer
       /\ (t0.ok /\ ~monitoring) => DeadSlots(mon_pc) # {}
       /\ Apply(r.w)
       /\ disc_fired' = IF r.result THEN 0 ELSE disc_fired
       /\ UNCHANGED <<lastCall, cl_pc, pureVars, appVars, loopVars>>

\* disconnect_device, lines 70-72: the registry's disconnect_device, then the
\* test "success and device_id == self.current_device"
ClientDisconnectBegin(d) ==
    LET w == dm_disconnect_device(Work, d)
    IN /\ cl_pc.pc = "idle"
       /\ Apply(w)
       /\ cl_pc' = IF d = current_device
                   THEN [pc |-> "clear", id |-> d, counted |-> TRUE, after |-> "fire"]
                   ELSE IdleClient
       /\ UNCHANGED <<lastCall, disc_fired, pureVars, appVars, loopVars>>

\* disconnect_all, lines 90-92: the registry's disconnect_all
ClientDisconnectAllBegin ==
    LET w == dm_disconnect_each(Work, dm_connected_devices)
    IN /\ cl_pc.pc = "idle"
       /\ Apply(w)
       /\ cl_pc' = [pc |-> "clear", id |-> None, counted |-> Truthy(current_device),
                    after |-> "fire"]
       /\ UNCHANGED <<lastCall, disc_fired, pureVars, appVars, loopVars>>

\* lines 73-74 and 93-94
ClientClear ==
    /\ cl_pc.pc = "clear"
    /\ Apply(clear_current(Work))
    /\ cl_pc' = [cl_pc EXCEPT !.pc = "stop"]
    /\ UNCHANGED <<lastCall, disc_fired, pureVars, appVars, loopVars>>

\* lines 75 and 95: stop_monitoring, line 144
ClientStop ==
    /\ cl_pc.pc = "stop"
    /\ monitoring' = FALSE
    /\ cl_pc' = [cl_pc EXCEPT !.pc = "join"]
    /\ UNCHANGED <<dm_connected_devices, dm_device_info, current_device,
                   current_device_info, monitor_thread, mon_pc, lastCall,
                   disc_fired, pureVars, appVars, loopVars>>

\* a thread that join(timeout=1) stops waiting for: it has ended, or it is in
\* its 30 s sleep, in the 5 s one of the except clause or in the bridge calls
\* of get_device_info ("assign") and the second runs out
JoinReturns(t) ==
    IF t = 0 THEN TRUE ELSE mon_pc[t] \in {"dead", "sleep", "except", "assign"}

\* stop_monitoring, lines 145-147: join(timeout=1), then the handle is dropped
ClientJoin ==
    /\ cl_pc.pc = "join"
    /\ JoinReturns(monitor_thread)
    /\ monitor_thread' = 0
    /\ cl_pc' = IF cl_pc.after = "fire" THEN [cl_pc EXCEPT !.pc = "fire"] ELSE IdleClient
    /\ UNCHANGED <<dm_connected_devices, dm_device_info, current_device,
                   current_device_info, monitoring, mon_pc, lastCall,
                   disc_fired, pureVars, appVars, loopVars>>

\* lines 78-79 and 98-99: the callback
ClientFire ==
    /\ cl_pc.pc = "fire"
    /\ disc_fired' = IF cl_pc.counted THEN Fired(disc_fired) ELSE disc_fired
    /\ cl_pc' = IdleClient
    /\ UNCHANGED <<connVars, pureVars, appVars, loopVars>>

ClientScan(rc, lines) ==
    /\ cl_pc.pc = "idle"
    /\ Apply(scan_devices(Work, rc, lines))
    /\ UNCHANGED <<lastCall, monVars, pureVars, appVars, loopVars>>

ClientStartMonitoring ==
    /\ cl_pc.pc = "idle"
    /\ ~monitoring => DeadSlots(mon_pc) # {}
    /\ Apply(start_monitoring(Work))
    /\ UNCHANGED <<lastCall, monVars, pureVars, appVars, loopVars>>

\* the public stop_monitoring (main.py:846), line 144; its join follows
ClientStopMonitoring ==
    /\ cl_pc.pc = "idle"
    /\ monitoring' = FALSE
    /\ cl_pc' = [pc |-> "join", id |-> None, counted |-> FALSE, after |-> "idle"]
    /\ UNCHANGED <<dm_connected_devices, dm_device_info, current_device,
                   current_device_info, monitor_thread, mon_pc, lastCall,
                   disc_fired, pureVars, appVars, loopVars>>

InitMon == ConnIdle /\ MonIdle /\ PureIdle /\ AppIdle

NextMon ==
    \/ \E t \in Threads : MonWhile(t)
    \/ \E t \in Threads : MonCheck(t)
    \/ \E t \in Threads : MonClear(t)
    \/ \E t \in Threads, raised \in BOOLEAN : MonFire(t, raised)
    \/ \E t \in Threads : MonExcept(t)
    \/ \E t \in Threads, st \in InfoStatus : MonWake(t, st)
    \/ \E d \in ConnIds, ans \in UsbAnswers \cup {NoAnswer}, st \in InfoStatus :
          ClientConnect(d, ans, st)
    \/ \E d \in ConnIds : ClientDisconnectBegin(d)
    \/ ClientDisconnectAllBegin
    \/ ClientClear
    \/ ClientStop
    \/ ClientJoin
    \/ ClientFire
    \/ \E lines \in Listings({USB1}) : ClientScan(0, lines)
    \/ ClientStartMonitoring
    \/ ClientStopMonitoring

SpecMon == InitMon /\ [][NextMon]_vars

\* C2: the on_device_disconnected callback is never invoked twice for one
\* disappearance of the current device, whatever the interleaving of the
\* monitor thread with disconnect_device and disconnect_all.
C2_DisconnectedFiredOnce == disc_fired <= 1

\* C26: what a background thread has to tell the interface goes through
\* root.after: the step in which a monitor thread delivers
\* on_device_disconnected puts handle_device_disconnected on the Tk queue and
\* runs no handler itself.
C26_HandlersGoThroughTheQueue ==
    [][\A t \in Threads :
          (mon_pc[t] = "fire" /\ mon_pc'[t] # "fire") =>
              /\ tk_queue' = Append(tk_queue, [fn |-> "handle_device_disconnected",
                                               arg |-> None])
              /\ disc_fired' = disc_fired]_vars

\* C28: an exception raised inside one iteration of _monitor_device is caught
\* and the loop goes on with its next iteration after the backoff; a monitor
\* thread ends only at its loop test, with monitoring off or the current
\* device cleared, or at the break that follows the current device being
\* found absent from the connected list.
C28_MonitorSurvivesExceptions ==
    [][\A t \in Threads :
          /\ (mon_pc[t] # "dead" /\ mon_pc'[t] = "dead") =>
                \/ mon_pc[t] = "while" /\ ~(monitoring /\ Truthy(current_device))
                \/ mon_pc[t] = "fire"
          /\ (mon_pc[t] = "except" /\ mon_pc'[t] # "except") => mon_pc'[t] = "while"
      ]_vars

\* a monitor thread is in the except clause while the client has connected
\* again: the thread will find monitoring on at its next loop test
C28_Witness ==
    \E t \in Threads :
        /\ mon_pc[t] = "except"
        /\ monitoring
        /\ Truthy(current_device)

\* the threads inside the loop of _monitor_device that are neither asleep nor
\* on their way out of it (past line 154 with the device found missing)
Executing == {t \in Threads : mon_pc[t] \in {"while", "check"}}

\* C3: at most one _monitor_device thread executes its loop at any time.
C3_AtMostOneMonitor == Cardinality(Executing) <= 1

\* ------------------------------------------------------ PhoneConnectorApp
\* The presence poll (monitor_devices), the Tk thread that runs what the poll
\* hands to root.after, the 10-second auto-detection loop and the connect
\* thread of handle_connect_wifi.  An attempt runs in one step up to the
\* membership test "device_id not in connected_devices"; the append, the
\* save and the return are a second step of the same thread.
PollIds == {USB1, USB2, EmptyId}

\* int(octet)
OctetVal(s) ==
    CASE s = "192" -> 192
      [] s = "168" -> 168
      [] s = "1" -> 1
      [] s = "2" -> 2
      [] s = "5" -> 5
      [] s = "7" -> 7
      [] s = "10" -> 10
      [] s = "200" -> 200
      [] s = "256" -> 256
      [] OTHER -> 0

\* NetworkDetector._get_network_info: the first of the common masks parses
\* for every address, so the mask inferred for the host is 255.255.255.0
MASK24 == <<255, 255, 255, 0>>

\* one octet ANDed with a mask octet that is 255 or 0
MaskOctet(v, m) == IF m = 255 THEN v ELSE 0

\* ipaddress.IPv4Network(f"{ip}/{mask}", strict=False): the network address
IPv4Network(ip, mask) == [i \in 1..4 |-> MaskOctet(OctetVal(ip[i]), mask[i])]

\* NetworkDetector.is_same_network with the host's inferred mask
same_subnet(ip1, ip2, mask) ==
    /\ Len(ip1) = 4
    /\ Len(ip2) = 4
    /\ IPv4Network(ip1, mask) = IPv4Network(ip2, mask)

\* a subnet test that lets every address through
any_network(ip1, ip2) == TRUE

\* PhoneConnectorApp.is_same_network: the first three octets, as strings
is_same_network(ip1, ip2) ==
    /\ Len(ip1) = 4
    /\ Len(ip2) = 4
    /\ ip1[1] = ip2[1]
    /\ ip1[2] = ip2[2]
    /\ ip1[3] = ip2[3]

\* what the bridge and the network answer during one WiFi connect
AppAnswers ==
    {[NoAnswer EXCEPT !.probe = "refused"],
     [NoAnswer EXCEPT !.probe = "open", !.rc = 0, !.out = OutConnected],
     [NoAnswer EXCEPT !.probe = "open", !.rc = 0, !.out = OutUpper],
     [NoAnswer EXCEPT !.probe = "open", !.rc = 0, !.out = OutFailed],
     [NoAnswer EXCEPT !.probe = "open", !.rc = 1, !.out = OutFailed]}

\* an auto_connect_wifi that goes to the bridge without test_connection
auto_connect_wifi_untested(ip, test, ans) ==
    LET r == connect_wifi(ans.probe, ans.rc, ans.out, ans.tmo)
    IN [ok |-> r.ok,
        checks |-> <<"probe">> \o (IF r.bridge_invoked THEN <<"bridge">> ELSE <<>>)]

\* auto_connect_wifi, lines 1189-1195: test_connection, then connect_wifi
\* (its own probe, then the bridge); the checks made, in order
auto_connect_wifi(ip, test, ans) ==
    IF ~test
    THEN [ok |-> FALSE, checks |-> <<"reach">>]
    ELSE LET r == connect_wifi(ans.probe, ans.rc, ans.out, ans.tmo)
         IN [ok |-> r.ok,
             checks |-> <<"reach", "probe">>
                        \o (IF r.bridge_invoked THEN <<"bridge">> ELSE <<>>)]

\* auto_connect_device lines 210-241 and auto_detect_wifi lines 1053-1070:
\* the WiFi IP, the subnet test, then auto_connect_wifi
promotion(ip, test, ans) ==
    IF ~Truthy(ip)
    THEN [outcome |-> "no_ip", checks |-> <<"ip">>]
    ELSE IF ~is_same_network(ip, PC_IP)
    THEN [outcome |-> "other_network", checks |-> <<"ip", "subnet">>]
    ELSE LET r == auto_connect_wifi(ip, test, ans)
         IN [outcome |-> IF r.ok THEN "acknowledged" ELSE "wifi_failed",
             checks |-> <<"ip", "subnet">> \o r.checks]

\* save_wifi_config, lines 865-870: the dict it assigns to self.wifi_config
save_wifi_config(cfg, ip, port) ==
    [last_ip |-> ip, last_port |-> port,
     connection_count |-> cfg.connection_count + 1]

\* save_wifi_config, lines 872-877: json.dump into the file; an error of
\* open() or of the write is caught and logged, and the file keeps what it held
write_config(file, cfg, written) == IF written THEN cfg ELSE file

\* the state auto-promotion must leave alone when it fails
AppSnapshot ==
    [app_connected |-> app_connected_devices,
     cm_connected |-> cm_connected_devices,
     dm_connected |-> dm_connected_devices,
     current_device |-> current_device,
     wifi_config |-> wifi_config,
     wifi_file |-> wifi_file]

AppFields == {"app_connected", "cm_connected", "dm_connected", "current_device",
              "wifi_config", "wifi_file"}

\* the environment grants a connect only while the save counter has room
SavesLeft ==
    wifi_config.connection_count
        + Cardinality({t \in Workers : worker[t].pc = "append"}) < MaxSaves

\* the connection status an attempt hands to update_connection_status:
\* auto_connect_device lines 188, 223, 235, 238, 241; auto_detect_wifi lines
\* 1061, 1066, 1070
attempt_status(t, outcome) ==
    IF t = "tk"
    THEN CASE outcome \in {"already", "promoted"} -> "connected"
           [] outcome = "acknowledged" -> "none"
           [] OTHER -> "usb_connected"
    ELSE CASE outcome = "promoted" -> "connected"
           [] outcome = "acknowledged" -> "auto_connecting"
           [] outcome = "wifi_failed" -> "ready_to_connect"
           [] OTHER -> "none"

\* the fields of AppSnapshot a step leaves different from what it found
ChangedApp == {f \in AppFields : AppSnapshot'[f] # AppSnapshot[f]}

Attempt(by, usb, ip, test, ans, outcome, checks, status, changed) ==
    [fresh |-> TRUE, by |-> by, usb |-> usb, ip |-> ip, test |-> test,
     probe |-> ans.probe, rc |-> ans.rc, out |-> ans.out,
     outcome |-> outcome, raised |-> FALSE, checks |-> checks,
     status |-> status, changed |-> changed]

\* the first step of an attempt by thread t: nothing is written; a thread
\* whose connect was acknowledged has evaluated the membership test
AttemptStep(t, usb, ip, test, ans, skip) ==
    LET p == IF skip THEN [outcome |-> "already", checks |-> <<>>]
             ELSE promotion(ip, test, ans)
    IN /\ worker[t].pc = "idle"
       /\ p.outcome = "acknowledged" => SavesLeft
       /\ UNCHANGED <<app_connected_devices, cm_connected_devices, wifi_config, wifi_file,
                      last_devices, connVars, monVars, pureVars>>
       /\ worker' = [worker EXCEPT ![t] =
              IF p.outcome = "acknowledged"
              THEN [pc |-> "append", ip |-> ip, usb |-> usb,
                    absent |-> ~InList(ip_port(ip, PORT), app_connected_devices)]
              ELSE IdleWorker]
       /\ lastAttempt' = Attempt(t, usb, ip, test, ans, p.outcome, p.checks,
                                 attempt_status(t, p.outcome), ChangedApp)
       /\ lastTick' = NoTick

\* the answer that acknowledges a connect
Acknowledging == [NoAnswer EXCEPT !.probe = "open", !.rc = 0, !.out = OutConnected]

\* what one attempt is answered: the address get_device_wifi_ip finds (or
\* None), the result of test_connection, and the answer to connect_wifi.  An
\* unreachable phone refuses the second probe too, unless the network came
\* up between the two probes.
AttemptInputs ==
    {<<None, FALSE, NoAnswer>>}
    \cup {<<IP_SAME, FALSE, ans>> : ans \in {[NoAnswer EXCEPT !.probe = "refused"],
                                             Acknowledging}}
    \cup {<<IP_SAME, TRUE, ans>> : ans \in AppAnswers}
    \cup {<<IP_OTHER, FALSE, [NoAnswer EXCEPT !.probe = "refused"]>>,
          <<IP_OTHER, TRUE, Acknowledging>>}

\* auto_connect_device(device_id), run by the Tk thread, lines 182-245
TkAutoConnect(ip, test, ans) ==
    /\ tk_queue # <<>>
    /\ AttemptStep("tk", Head(tk_queue), ip, test, ans,
                   Head(tk_queue) \in cm_connected_devices)
    /\ tk_queue' = Tail(tk_queue)

\* one device of one pass of auto_detect_wifi, lines 1052-1070
LoopAttempt(usb, ip, test, ans) ==
    /\ AttemptStep("loop", usb, ip, test, ans, FALSE)
    /\ UNCHANGED tk_queue

\* the connect thread of handle_connect_wifi, lines 515-540, for the address
\* and port typed into the form: test_connection, then connect_wifi
BtnConnect(test, ans) ==
    LET r == auto_connect_wifi(IP_SAME, test, ans)
    IN /\ worker["btn"].pc = "idle"
       /\ r.ok => SavesLeft
       /\ worker' = [worker EXCEPT !["btn"] =
              IF r.ok
              THEN [pc |-> "append", ip |-> IP_SAME, usb |-> None,
                    absent |-> ~InList(ip_port(IP_SAME, PORT), app_connected_devices)]
              ELSE IdleWorker]
       /\ lastAttempt' = NoAttempt
       /\ lastTick' = NoTick
       /\ UNCHANGED <<app_connected_devices, cm_connected_devices, wifi_config, wifi_file,
                      last_devices, tk_queue, connVars, monVars, pureVars>>

\* the second step of thread t: "connected_devices.append(device_id)" if the
\* test found it absent, save_wifi_config (`written`: the file could be
\* written), and for auto_connect_device
\* "connection_manager.connected_devices.add(device_id)" (line 231)
WorkerAppend(t, written) ==
    LET w == worker[t]
        id == ip_port(w.ip, PORT)
    IN /\ w.pc = "append"
       /\ app_connected_devices' =
             IF w.absent THEN Append(app_connected_devices, id)
             ELSE app_connected_devices
       /\ wifi_config' = save_wifi_config(wifi_config, w.ip, PORT)
       /\ wifi_file' = write_config(wifi_file, wifi_config', written)
       /\ cm_connected_devices' =
             IF t = "tk" THEN cm_connected_devices \cup {w.usb}
             ELSE cm_connected_devices
       /\ UNCHANGED <<last_devices, tk_queue, connVars, monVars, pureVars>>
       /\ worker' = [worker EXCEPT ![t] = IdleWorker]
       /\ lastAttempt' =
             IF t = "btn" THEN NoAttempt
             ELSE Attempt(t, w.usb, w.ip, TRUE, Acknowledging, "promoted",
                          <<"ip", "subnet", "reach", "probe", "bridge">>,
                          attempt_status(t, "promoted"), ChangedApp)
       /\ lastTick' = NoTick

\* how many network identifiers a registry holds
NetworkIds(l) == Cardinality({i \in DOMAIN l : Contains(l[i], <<":">>)})

\* how many times a method performed an effect
StepCount(steps, e) == Cardinality({i \in DOMAIN steps : steps[i] = e})

\* handle_disconnect_all, lines 568-588, run by the Tk thread: it consults
\* PhoneConnectorApp.device_manager.connected_devices, then calls
\* ConnectionManager.disconnect_all, which works on the ConnectionManager's
\* own DeviceManager
HandleDisconnectAll ==
    LET w == disconnect_all(Work)
    IN /\ worker["tk"].pc = "idle"
       /\ Truthy(app_connected_devices)
       /\ Apply(w)
       /\ lastAttempt' =
             [NoAttempt EXCEPT !.fresh = TRUE, !.by = "disconnect_all",
                               !.outcome = "success", !.checks = w.steps]
       /\ lastTick' = NoTick
       /\ UNCHANGED <<app_connected_devices, cm_connected_devices, wifi_config,
                      wifi_file, last_devices, tk_queue, worker, lastCall,
                      monVars, pureVars>>

\* monitor_devices, lines 133-145: the identifiers whose state is 'device'
poll_current(rc, lines) ==
    IF rc = 0
    THEN {lines[i].id : i \in {j \in DOMAIN lines : lines[j].state = "device"}}
    ELSE {}

\* a poll that takes every listed device for a new one
all_current(current, last) == current

\* lines 148-149
new_devices(current, last) == current \ last
removed_devices(current, last) == last \ current

\* a change test that looks at the added identifiers only
only_added(new, removed) == new # {}

\* line 164: "if new_devices or removed_devices"
poll_changed(new, removed) == new # {} \/ removed # {}

\* the orders in which a `for` can visit a set
Orders(S) ==
    {q \in [1..Cardinality(S) -> S] : \A i, j \in 1..Cardinality(S) : i # j => q[i] # q[j]}

\* lines 152-155: what the loop over new_devices hands to root.after
RECURSIVE schedule_new(_)
schedule_new(order) ==
    IF order = <<>> THEN <<>>
    ELSE (IF Truthy(Head(order))
          THEN <<[fn |-> "log_new_device", arg |-> Head(order)],
                 [fn |-> "auto_connect_device", arg |-> Head(order)]>>
          ELSE <<>>) \o schedule_new(Tail(order))

\* lines 158-161: what the loop over removed_devices hands to root.after
RECURSIVE schedule_removed(_)
schedule_removed(order) ==
    IF order = <<>> THEN <<>>
    ELSE (IF Truthy(Head(order))
          THEN <<[fn |-> "log_device_disconnected", arg |-> Head(order)],
                 [fn |-> "handle_device_disconnected", arg |-> Head(order)]>>
          ELSE <<>>) \o schedule_removed(Tail(order))

\* the identifiers of the auto_connect_device calls among scheduled callbacks
RECURSIVE auto_connects(_)
auto_connects(sched) ==
    IF sched = <<>> THEN <<>>
    ELSE (IF Head(sched).fn = "auto_connect_device" THEN <<Head(sched).arg>> ELSE <<>>)
         \o auto_connects(Tail(sched))

\* one pass of the loop of monitor_devices, lines 130-170; the Tk thread has
\* run what the previous pass scheduled
PollTick(rc, lines) ==
    LET current == poll_current(rc, lines)
        new == new_devices(current, last_devices)
        removed == removed_devices(current, last_devices)
    IN \E on \in Orders(new), orem \in Orders(removed) :
         LET sched == schedule_new(on) \o schedule_removed(orem)
                      \o (IF poll_changed(new, removed)
                          THEN <<[fn |-> "update_device_list_from_adb", arg |-> None]>>
                          ELSE <<>>)
         IN /\ tk_queue = <<>>
            /\ tk_queue' = auto_connects(sched)
            /\ last_devices' = IF poll_changed(new, removed) THEN current
                               ELSE last_devices
            /\ lastTick' = [fresh |-> TRUE, ok |-> rc = 0, raised |-> FALSE,
                            current |-> current, last |-> last_devices,
                            scheduled |-> sched]
            /\ lastAttempt' = NoAttempt
            /\ UNCHANGED <<app_connected_devices, cm_connected_devices,
                           wifi_config, wifi_file, worker, connVars, monVars,
                           pureVars>>

\* lines 172-176: the listing raised (its 10 s timeout); the error is logged
\* and last_devices is left alone
PollError ==
    /\ tk_queue = <<>>
    /\ lastTick' = [fresh |-> TRUE, ok |-> FALSE, raised |-> TRUE,
                    current |-> {}, last |-> last_devices,
                    scheduled |-> <<[fn |-> "log_monitoring_error", arg |-> None]>>]
    /\ lastAttempt' = NoAttempt
    /\ UNCHANGED <<app_connected_devices, cm_connected_devices, wifi_config, wifi_file,
                   last_devices, tk_queue, worker, connVars, monVars, pureVars>>

InitApp == ConnIdle /\ MonIdle /\ PureIdle /\ AppIdle

\* a tick whose listing succeeded: every listing of ready devices, and the
\* listings of one device that is not ready
PollListings ==
    LET all == {lines \in Listings(PollIds) :
                   \A i \in DOMAIN lines : lines[i].state = "device" \/ Len(lines) = 1}
        Lines(l) == {l[i] : i \in DOMAIN l}
    IN {l \in all : l = CHOOSE m \in all : Lines(m) = Lines(l)}

PollListed == \E lines \in PollListings : PollTick(0, lines) /\ UNCHANGED loopVars

\* a tick whose listing exited non-zero
PollFailed == PollTick(1, <<>>) /\ UNCHANGED loopVars

\* the form holds the phone's address
BtnThread ==
    /\ \/ BtnConnect(TRUE, Acknowledging)
       \/ BtnConnect(TRUE, [NoAnswer EXCEPT !.probe = "open", !.rc = 1, !.out = OutFailed])
       \/ BtnConnect(FALSE, [NoAnswer EXCEPT !.probe = "refused"])
    /\ UNCHANGED loopVars

NextApp ==
    \/ PollListed
    \/ PollFailed
    \/ PollError /\ UNCHANGED loopVars
    \/ \E i \in AttemptInputs : TkAutoConnect(i[1], i[2], i[3]) /\ UNCHANGED loopVars
    \/ \E i \in AttemptInputs :
          LoopAttempt(USB1, i[1], i[2], i[3]) /\ UNCHANGED loopVars
    \/ BtnThread
    \/ HandleDisconnectAll /\ UNCHANGED loopVars
    \/ \E t \in Workers, written \in BOOLEAN :
          WorkerAppend(t, written) /\ UNCHANGED loopVars

SpecApp == InitApp /\ [][NextApp]_vars

\* ------------------------------------------------ the two background loops
\* The thread of monitor_devices (main.py:130-176) and the thread of
\* auto_detect_wifi (main.py:1044-1077), each with its position: "try" at the
\* top of the loop body, "sleep" in the wait after a pass that completed,
\* "cooldown" in the longer wait of the except branch, "ended" once the
\* thread's function has returned or raised.  The Tk thread runs what the
\* poll scheduled.

\* a loop whose except branch lets the thread end
ends_on_exception(loop) == "ended"

\* the except branches, main.py:172-176 and 1075-1077: log, sleep 5 s (15 s
\* for auto_detect_wifi), and back to the top of `while True`
on_exception(loop) == "cooldown"

\* the listings and answers drawn for the loops
LoopListings == Listings({USB1})
LoopInputs ==
    {<<None, FALSE, NoAnswer>>,
     <<IP_SAME, FALSE, [NoAnswer EXCEPT !.probe = "refused"]>>,
     <<IP_SAME, TRUE, Acknowledging>>,
     <<IP_OTHER, TRUE, Acknowledging>>}

\* one pass of monitor_devices that raises nothing, then time.sleep(2)
LoopPollTick ==
    /\ poll_pc = "try"
    /\ \/ \E lines \in LoopListings : PollTick(0, lines)
       \/ PollTick(1, <<>>)
    /\ poll_pc' = "sleep"
    /\ UNCHANGED detect_pc

\* a pass of monitor_devices in which the listing raises
LoopPollRaise ==
    /\ poll_pc = "try"
    /\ PollError
    /\ poll_pc' = on_exception("poll")
    /\ UNCHANGED detect_pc

\* time.sleep returns (main.py:170 and 176)
LoopPollWake ==
    /\ poll_pc \in {"sleep", "cooldown"}
    /\ poll_pc' = "try"
    /\ lastTick' = NoTick
    /\ lastAttempt' = NoAttempt
    /\ UNCHANGED <<app_connected_devices, cm_connected_devices, wifi_config,
                   wifi_file, last_devices, tk_queue, worker, detect_pc,
                   connVars, monVars, pureVars>>

\* a pass of auto_detect_wifi for the USB device get_usb_devices lists
LoopDetectTry ==
    /\ detect_pc = "try"
    /\ \E i \in LoopInputs : LoopAttempt(USB1, i[1], i[2], i[3])
    /\ detect_pc' = IF worker'["loop"].pc = "append" THEN "body" ELSE "sleep"
    /\ UNCHANGED poll_pc

\* the rest of an acknowledged auto_connect_wifi, the `break`, time.sleep(10)
LoopDetectAppend ==
    /\ detect_pc = "body"
    /\ \E written \in BOOLEAN : WorkerAppend("loop", written)
    /\ detect_pc' = "sleep"
    /\ UNCHANGED poll_pc

\* a pass of auto_detect_wifi in which a call raises (main.py:1075-1077)
LoopDetectRaise ==
    /\ detect_pc = "try"
    /\ detect_pc' = on_exception("detect")
    /\ lastAttempt' =
          [NoAttempt EXCEPT !.fresh = TRUE, !.by = "loop", !.usb = USB1,
                            !.outcome = "error"]
    /\ lastTick' = NoTick
    /\ UNCHANGED <<app_connected_devices, cm_connected_devices, wifi_config,
                   wifi_file, last_devices, tk_queue, worker, poll_pc,
                   connVars, monVars, pureVars>>

\* time.sleep returns (main.py:1073 and 1077)
LoopDetectWake ==
    /\ detect_pc \in {"sleep", "cooldown"}
    /\ detect_pc' = "try"
    /\ lastTick' = NoTick
    /\ lastAttempt' = NoAttempt
    /\ UNCHANGED <<app_connected_devices, cm_connected_devices, wifi_config,
                   wifi_file, last_devices, tk_queue, worker, poll_pc,
                   connVars, monVars, pureVars>>

\* the Tk thread: auto_connect_device for the head of its queue
LoopTk ==
    /\ \/ \E i \in LoopInputs : TkAutoConnect(i[1], i[2], i[3])
       \/ \E written \in BOOLEAN : WorkerAppend("tk", written)
    /\ UNCHANGED loopVars

PollThread == LoopPollTick \/ LoopPollRaise \/ LoopPollWake
DetectThread == LoopDetectTry \/ LoopDetectAppend \/ LoopDetectRaise \/ LoopDetectWake

InitLoops == ConnIdle /\ MonIdle /\ PureIdle /\ AppIdle

NextLoops == PollThread \/ DetectThread \/ LoopTk

\* the threads are daemon threads of a running process and the Tk main loop
\* runs: each of the three keeps being scheduled
SpecLoops ==
    /\ InitLoops
    /\ [][NextLoops]_vars
    /\ WF_vars(PollThread)
    /\ WF_vars(DetectThread)
    /\ WF_vars(LoopTk)

Scheduled(fn, id) ==
    Cardinality({i \in DOMAIN lastTick.scheduled :
                    lastTick.scheduled[i] = [fn |-> fn, arg |-> id]})

\* how many auto_connect_device(id) calls await the Tk thread
Queued(id) == Cardinality({i \in DOMAIN tk_queue : tk_queue[i] = id})

Once(b) == IF b THEN 1 ELSE 0

\* C1 (as stated): a tick with a successful listing schedules exactly one
\* 'new device' notification and one auto_connect_device call for every
\* identifier in current - previous, exactly one 'disconnected' notification
\* and one handle_device_disconnected call for every identifier in
\* previous - current, and nothing for the others.
C1_OneEventPerChangedIdentifier ==
    (lastTick.fresh /\ lastTick.ok) =>
        \A id \in PollIds :
            LET added == id \in lastTick.current \ lastTick.last
                gone == id \in lastTick.last \ lastTick.current
            IN /\ Scheduled("log_new_device", id) = Once(added)
               /\ Scheduled("auto_connect_device", id) = Once(added)
               /\ Queued(id) = Once(added)
               /\ Scheduled("log_device_disconnected", id) = Once(gone)
               /\ Scheduled("handle_device_disconnected", id) = Once(gone)

\* C1 (amended): the same, for every identifier that is not the empty
\* string; a listed device whose identifier is empty is never notified.
C1_OneEventPerNonEmptyIdentifier ==
    (lastTick.fresh /\ lastTick.ok) =>
        \A id \in PollIds :
            LET added == Truthy(id) /\ id \in lastTick.current \ lastTick.last
                gone == Truthy(id) /\ id \in lastTick.last \ lastTick.current
            IN /\ Scheduled("log_new_device", id) = Once(added)
               /\ Scheduled("auto_connect_device", id) = Once(added)
               /\ Queued(id) = Once(added)
               /\ Scheduled("log_device_disconnected", id) = Once(gone)
               /\ Scheduled("handle_device_disconnected", id) = Once(gone)

\* the third tick of the listings {A1}, {A1, B2}, {B2}
C1_Witness ==
    /\ lastTick.fresh
    /\ lastTick.ok
    /\ lastTick.last = {USB1, USB2}
    /\ lastTick.current = {USB2}
    /\ Scheduled("handle_device_disconnected", USB1) = 1

\* the notifications of added and removed devices
Notifications ==
    {"log_new_device", "auto_connect_device", "log_device_disconnected",
     "handle_device_disconnected"}

\* C14: a tick whose listing timed out or exited non-zero hands no 'new
\* device' and no 'disconnected' notification to the Tk thread and leaves the
\* previous snapshot as it was.
C14_FailedListingIsNoInformation ==
    (lastTick.fresh /\ ~lastTick.ok) =>
        /\ \A i \in DOMAIN lastTick.scheduled :
              lastTick.scheduled[i].fn \notin Notifications
        /\ tk_queue = <<>>
        /\ last_devices = lastTick.last

\* C15: the previous snapshot is replaced by the tick's listing only on a
\* tick where an identifier was added or removed; after every tick that
\* completed without exception it equals that tick's listing; a tick without
\* change schedules nothing, a tick with a change schedules the device-list
\* refresh once, after the notifications.
C15_SnapshotFollowsListing ==
    (lastTick.fresh /\ ~lastTick.raised) =>
        /\ last_devices = lastTick.current
        /\ last_devices # lastTick.last =>
              \/ lastTick.current \ lastTick.last # {}
              \/ lastTick.last \ lastTick.current # {}
        /\ lastTick.current = lastTick.last => lastTick.scheduled = <<>>
        /\ lastTick.current # lastTick.last =>
              /\ Scheduled("update_device_list_from_adb", None) = 1
              /\ lastTick.scheduled[Len(lastTick.scheduled)].fn =
                    "update_device_list_from_adb"

\* a tick that found the devices of the tick before it
C15_Witness ==
    /\ lastTick.fresh
    /\ lastTick.ok
    /\ lastTick.current = {USB1, USB2}
    /\ lastTick.last = {USB1, USB2}
    /\ lastTick.scheduled = <<>>

\* C16: an identifier that two successful listings in a row did not show is
\* no longer in the set auto_connect_device consults for its skip, so the
\* device is auto-connected again when it is attached again.
C16_AbsentIsEvicted ==
    (lastTick.fresh /\ lastTick.ok) =>
        \A id \in cm_connected_devices :
            id \in lastTick.current \/ id \in lastTick.last

\* C4: the registry of connected devices never holds an identifier twice.
C4_NoDuplicateIdentifiers ==
    \A i, j \in DOMAIN app_connected_devices :
        i # j => app_connected_devices[i] # app_connected_devices[j]

\* ---------------------------------------------- properties of auto-promotion
\* the four conditions under which a promotion must fail, on what the
\* attempt was answered
NoWifiIp(a) == ~Truthy(a.ip)
OtherSubnet(a) == Truthy(a.ip) /\ ~same_subnet(a.ip, PC_IP, MASK24)
Unreachable(a) == Truthy(a.ip) /\ same_subnet(a.ip, PC_IP, MASK24) /\ ~a.test
Ambiguous(a) ==
    /\ Truthy(a.ip)
    /\ same_subnet(a.ip, PC_IP, MASK24)
    /\ a.test
    /\ a.probe = "open"
    /\ a.rc = 0
    /\ ~HasMarkerAnyCase(a.out)

\* the fourth condition as worded: exit 0 and no literal "connected"
NoLiteral(a) ==
    /\ Truthy(a.ip)
    /\ same_subnet(a.ip, PC_IP, MASK24)
    /\ a.test
    /\ a.probe = "open"
    /\ a.rc = 0
    /\ ~HasLiteral(a.out)

\* C9 (as stated): under each of the four abort conditions, the fourth being
\* a bridge connect that exits 0 without the literal "connected",
\* auto_connect_device reports the promotion as failed without raising and
\* leaves the registries, the current device and the saved WifiConfig alone.
C9_LiteralAbortLeavesStateAlone ==
    (/\ lastAttempt.fresh
     /\ lastAttempt.by = "tk"
     /\ lastAttempt.outcome # "already"
     /\ \/ NoWifiIp(lastAttempt)
        \/ OtherSubnet(lastAttempt)
        \/ Unreachable(lastAttempt)
        \/ NoLiteral(lastAttempt)) =>
        /\ lastAttempt.outcome \in {"no_ip", "other_network", "wifi_failed"}
        /\ lastAttempt.status = "usb_connected"
        /\ ~lastAttempt.raised
        /\ lastAttempt.changed = {}
        /\ worker["tk"].pc = "idle"

\* C9 (amended): under each of the four abort conditions, the fourth being a
\* bridge connect that exits 0 without "connected" in any letter case,
\* auto_connect_device reports the promotion as failed (the "USB Connected"
\* status) without raising, and the registries, the current device and the
\* saved WifiConfig are as before: no ip:port entry is added and no append is
\* pending.
C9_AbortLeavesStateAlone ==
    (/\ lastAttempt.fresh
     /\ lastAttempt.by = "tk"
     /\ lastAttempt.outcome # "already"
     /\ \/ NoWifiIp(lastAttempt)
        \/ OtherSubnet(lastAttempt)
        \/ Unreachable(lastAttempt)
        \/ Ambiguous(lastAttempt)) =>
        /\ lastAttempt.outcome \in {"no_ip", "other_network", "wifi_failed"}
        /\ lastAttempt.status = "usb_connected"
        /\ ~lastAttempt.raised
        /\ lastAttempt.changed = {}
        /\ worker["tk"].pc = "idle"

\* the bridge exited 0 without the marker while a WiFi device was registered
C9_Witness ==
    /\ lastAttempt.fresh
    /\ lastAttempt.by = "tk"
    /\ Ambiguous(lastAttempt)
    /\ lastAttempt.outcome = "wifi_failed"
    /\ app_connected_devices # <<>>

\* C11: whenever an auto-promotion connect has succeeded (auto_connect_wifi
\* returns true, on the Tk thread or on the auto-detection thread), the
\* identifier "<phone_ip>:5555" is in the connected list and the persisted
\* WifiConfig holds last_ip = phone_ip and last_port = "5555".
C11_RecordedBeforeSuccess ==
    (lastAttempt.fresh /\ lastAttempt.outcome = "promoted") =>
        /\ InList(ip_port(lastAttempt.ip, PORT), app_connected_devices)
        /\ wifi_file.last_ip = lastAttempt.ip
        /\ wifi_file.last_port = PORT

\* C12: an attempt for a USB identifier that is already in the connected set
\* is skipped, on the Tk thread and on the auto-detection thread: no WiFi-IP
\* query, no subnet or reachability test, no bridge connect, no write.
C12_PromotedIsSkipped ==
    (/\ lastAttempt.fresh
     /\ lastAttempt.by \in {"tk", "loop"}
     /\ lastAttempt.outcome # "promoted"
     /\ lastAttempt.usb \in cm_connected_devices) =>
        /\ lastAttempt.outcome = "already"
        /\ lastAttempt.checks = <<>>
        /\ lastAttempt.changed = {}
        /\ worker[lastAttempt.by].pc = "idle"

\* C27: the connected-device registries and the current-device pointer are
\* written only inside operations of the ConnectionManager and its
\* DeviceManager; the presence poll, the auto-promotion code and the GUI
\* handlers only read them.
C27_OnlyCoordinatorWrites ==
    [][(\/ cm_connected_devices' # cm_connected_devices
        \/ app_connected_devices' # app_connected_devices
        \/ dm_connected_devices' # dm_connected_devices
        \/ current_device' # current_device)
            => (lastAttempt'.fresh /\ lastAttempt'.by = "disconnect_all")]_vars

\* C18: after disconnect_all, as triggered by handle_disconnect_all, has
\* returned success the connected registries are empty, the network
\* identifiers recorded by a direct WiFi connect or by auto-promotion
\* included, the bridge's disconnect subcommand was run for each of these,
\* current_device is None and the monitor is stopped.
C18_DisconnectAllLeavesNothing ==
    (lastAttempt.fresh /\ lastAttempt.by = "disconnect_all") =>
        /\ app_connected_devices = <<>>
        /\ dm_connected_devices = <<>>
        /\ StepCount(lastAttempt.checks, "bridge_disconnect")
              >= NetworkIds(app_connected_devices)
        /\ current_device = None
        /\ ~monitoring

\* C10: in every auto-promotion attempt, of auto_connect_device and of the
\* 10-second loop, the bridge's connect subcommand is issued only after a
\* WiFi IP was found, the subnet test passed and the reachability test on
\* port 5555 passed, in this order, and never toward an address outside the
\* host's subnet.
C10_BridgeOnlyAfterChecks ==
    (/\ lastAttempt.fresh
     /\ lastAttempt.by \in {"tk", "loop"}
     /\ \E i \in DOMAIN lastAttempt.checks : lastAttempt.checks[i] = "bridge") =>
        /\ lastAttempt.checks = <<"ip", "subnet", "reach", "probe", "bridge">>
        /\ Truthy(lastAttempt.ip)
        /\ same_subnet(lastAttempt.ip, PC_IP, MASK24)
        /\ lastAttempt.test
        /\ lastAttempt.probe = "open"

\* the 10-second loop had its connect acknowledged by the bridge
C10_Witness ==
    /\ lastAttempt.fresh
    /\ lastAttempt.by = "loop"
    /\ lastAttempt.outcome = "acknowledged"
    /\ lastAttempt.checks[5] = "bridge"

\* ------------------------------------------------ the listing and its parsers
\* One `adb devices` output, read by DeviceManager.scan_devices and by
\* update_device_list_from_adb. A line of text is a sequence of tokens; TAB
\* and SP are the whitespace ones. What the bridge printed is drawn at the
\* start; each parser reads it in one step.
TAB == "\t"
SP == " "
Whitespace == {TAB, SP}

ScanStates == {"device", "unauthorized", "offline", "no permissions"}

\* what the bridge can print on one line: id<TAB>state, and the anomalies:
\* a space where the tab belongs, no identifier, a third field, nothing
ScanLines ==
    [form : {"ok"}, id : {USB1, NET1}, state : ScanStates]
    \cup [form : {"no_tab", "three_fields"}, id : {USB1, NET1}, state : {"device"}]
    \cup [form : {"empty_id"}, id : {<<>>}, state : {"device", "offline"}]
    \cup [form : {"blank"}, id : {<<>>}, state : {"device"}]

Render(rec) ==
    CASE rec.form = "ok" -> rec.id \o <<TAB, rec.state>>
      [] rec.form = "no_tab" -> rec.id \o <<SP, rec.state>>
      [] rec.form = "empty_id" -> <<TAB, rec.state>>
      [] rec.form = "three_fields" -> rec.id \o <<TAB, rec.state, TAB, "usb:1-1">>
      [] rec.form = "blank" -> <<>>

\* result.stdout: the header line, then the printed lines
stdout(recs) ==
    <<<<"List", SP, "of", SP, "devices", SP, "attached">>>>
        \o [i \in DOMAIN recs |-> Render(recs[i])]

ScanCalls ==
    [rc : {0, 1}, recs : UNION {[1..n -> ScanLines] : n \in 0..MaxLines}]

\* str.strip(): whitespace off both ends
RECURSIVE LStrip(_)
LStrip(s) == IF s # <<>> /\ Head(s) \in Whitespace THEN LStrip(Tail(s)) ELSE s

RECURSIVE RStrip(_)
RStrip(s) ==
    IF s # <<>> /\ s[Len(s)] \in Whitespace
    THEN RStrip(SubSeq(s, 1, Len(s) - 1))
    ELSE s

strip(s) == LStrip(RStrip(s))

\* str.split(sep): the fields between the separators, empty ones kept
RECURSIVE split(_, _)
split(s, sep) ==
    IF InList(sep, s)
    THEN LET i == CHOOSE k \in DOMAIN s :
                      s[k] = sep /\ \A j \in 1..(k - 1) : s[j] # sep
         IN <<SubSeq(s, 1, i - 1)>> \o split(SubSeq(s, i + 1, Len(s)), sep)
    ELSE <<s>>

\* stdout.strip().split('\n')[1:]: trailing blank lines go, the last line
\* loses its trailing whitespace, the first line is dropped
RECURSIVE strip_text(_)
strip_text(lines) ==
    IF lines = <<>> THEN <<>>
    ELSE IF strip(lines[Len(lines)]) = <<>>
    THEN strip_text(SubSeq(lines, 1, Len(lines) - 1))
    ELSE [lines EXCEPT ![Len(lines)] = RStrip(@)]

output_lines(text) ==
    IF strip_text(text) = <<>> THEN <<>> ELSE Tail(strip_text(text))

\* a status test that takes every state for 'device'
any_status(field) == TRUE

\* status == 'device'
status_is_device(field) == field = <<"device">>

\* device_manager.py lines 33-36: one line of the loop; the unpacking into
\* two names raises unless the split gave exactly two fields
scan_line(line) ==
    IF strip(line) # <<>> /\ InList(TAB, line)
    THEN LET f == split(strip(line), TAB)
         IN IF Len(f) # 2 THEN [raised |-> TRUE, ids |-> <<>>]
            ELSE IF f[1] # <<>> /\ status_is_device(f[2])
            THEN [raised |-> FALSE, ids |-> <<f[1]>>]
            ELSE [raised |-> FALSE, ids |-> <<>>]
    ELSE [raised |-> FALSE, ids |-> <<>>]

\* the loop of lines 32-36 over self.connected_devices, ended by the first
\* line that raises
RECURSIVE scan_loop(_, _)
scan_loop(lines, acc) ==
    IF lines = <<>> THEN [list |-> acc, raised |-> FALSE]
    ELSE IF scan_line(Head(lines)).raised THEN [list |-> acc, raised |-> TRUE]
    ELSE scan_loop(Tail(lines), acc \o scan_line(Head(lines)).ids)

\* DeviceManager.scan_devices on a new object: what it returns and what it
\* leaves in connected_devices; the except clause of lines 42-44 returns []
scan_devices_text(rc, text) ==
    IF rc = 0
    THEN LET r == scan_loop(output_lines(text), <<>>)
         IN [result |-> IF r.raised THEN <<>> ELSE r.list,
             list |-> r.list, raised |-> r.raised]
    ELSE [result |-> <<>>, list |-> <<>>, raised |-> FALSE]

\* main.py lines 261-266: one line of update_device_list_from_adb
update_line(line) ==
    IF strip(line) # <<>> /\ InList(TAB, line)
    THEN IF status_is_device(strip(split(line, TAB)[2]))
         THEN <<strip(split(line, TAB)[1])>>
         ELSE <<>>
    ELSE <<>>

RECURSIVE update_loop(_)
update_loop(lines) ==
    IF lines = <<>> THEN <<>>
    ELSE update_line(Head(lines)) \o update_loop(Tail(lines))

CallScanDevices ==
    /\ ~scan_out.done
    /\ LET r == scan_devices_text(scan_in.rc, stdout(scan_in.recs))
       IN scan_out' = [scan_out EXCEPT !.done = TRUE, !.result = r.result,
                                       !.list = r.list, !.raised = r.raised]
    /\ UNCHANGED <<scan_in, pure_in, pure_out, connVars, monVars, appVars, loopVars>>

\* update_device_list_from_adb: the list it hands to update_device_list, if
\* the listing exited 0
CallUpdateDeviceList ==
    /\ ~scan_out.listed
    /\ scan_out' =
        [scan_out EXCEPT
            !.listed = TRUE,
            !.devices = IF scan_in.rc = 0
                        THEN update_loop(output_lines(stdout(scan_in.recs)))
                        ELSE <<>>]
    /\ UNCHANGED <<scan_in, pure_in, pure_out, connVars, monVars, appVars, loopVars>>

InitScan ==
    /\ scan_in \in ScanCalls
    /\ scan_out = NoScan
    /\ pure_in = NoInput /\ pure_out = NoOutput
    /\ ConnIdle /\ MonIdle /\ AppIdle

NextScan == CallScanDevices \/ CallUpdateDeviceList

SpecScan == InitScan /\ [][NextScan]_vars

\* every printed line is id<TAB>state
WellFormed(recs) == \A i \in DOMAIN recs : recs[i].form = "ok"

\* the identifiers of the id<TAB>device lines, in the order printed
RECURSIVE DeviceLines(_)
DeviceLines(recs) ==
    IF recs = <<>> THEN <<>>
    ELSE IF Head(recs).form = "ok" /\ Head(recs).state = "device"
    THEN <<Head(recs).id>> \o DeviceLines(Tail(recs))
    ELSE DeviceLines(Tail(recs))

\* identifiers the output gives only in a state other than 'device'
NotReady(recs) ==
    {recs[i].id : i \in {k \in DOMAIN recs : recs[k].state # "device"}}
    \ {recs[i].id : i \in {k \in DOMAIN recs : recs[k].state = "device"}}

\* C19: for a header followed by lines id<TAB>state, scan_devices and
\* update_device_list_from_adb give exactly the identifiers whose state is
\* the literal "device", in input order, and no identifier that is only
\* unauthorized, offline or without permissions.
C19_ExactlyTheDeviceLines ==
    (scan_in.rc = 0 /\ WellFormed(scan_in.recs)) =>
        /\ scan_out.done =>
            /\ scan_out.result = DeviceLines(scan_in.recs)
            /\ scan_out.list = scan_out.result
            /\ \A id \in NotReady(scan_in.recs) : ~InList(id, scan_out.result)
        /\ scan_out.listed =>
            /\ scan_out.devices = DeviceLines(scan_in.recs)
            /\ \A id \in NotReady(scan_in.recs) : ~InList(id, scan_out.devices)

\* both parsers read a listing of one ready and one unauthorized device
C19_Witness ==
    /\ scan_out.done /\ scan_out.listed
    /\ scan_in.rc = 0 /\ WellFormed(scan_in.recs)
    /\ Len(scan_in.recs) = 2
    /\ scan_in.recs[1].state = "unauthorized"
    /\ scan_out.result = <<NET1>>
    /\ scan_out.devices = <<NET1>>

\* C20: a malformed line (no tab, empty identifier, more than two fields) is
\* skipped by scan_devices without a trace: every id<TAB>device line of the
\* same output is returned and recorded in connected_devices.
C20_MalformedLineIsSkipped ==
    (scan_out.done /\ scan_in.rc = 0) =>
        /\ scan_out.result = DeviceLines(scan_in.recs)
        /\ scan_out.list = DeviceLines(scan_in.recs)

\* ------------------------------------------- DeviceManager.get_device_info
\* One call of get_device_info: the eight sub-queries run in the order of the
\* source inside one try block. What each of them meets is drawn at the start:
\* exit 0 ("ok"), a non-zero exit, or an exception out of subprocess.run or of
\* the parsing of its output (a timeout included).
Queries ==
    <<"device_name", "android_version", "manufacturer", "device_ip", "battery",
      "developer_options", "wifi_debugging", "serial_number">>

\* the keys a sub-query writes
QueryFields(q) == IF q = "battery" THEN {"battery_level", "charging_status"} ELSE {q}

\* what the else branch of a sub-query writes
Sentinel(f) == IF f = "device_name" THEN "Unknown Device" ELSE "Unknown"

QueryOutcomes == {"ok", "nonzero", "raise"}

\* an exception leaves the try block: the sub-queries after it are not run
RECURSIVE run_queries(_, _, _)
run_queries(info, k, outs) ==
    IF k > Len(Queries) THEN [info EXCEPT !.status = "Connected"]
    ELSE IF outs[k] = "raise" THEN [info EXCEPT !.status = "Error"]
    ELSE run_queries(
            info @@ [f \in QueryFields(Queries[k]) |->
                        IF outs[k] = "ok" THEN "value" ELSE Sentinel(f)],
            k + 1, outs)

InfoCalls ==
    [fn : {"get_device_info"}, id : {USB1, NET1},
     outs : [DOMAIN Queries -> QueryOutcomes]]

CallGetDeviceInfo ==
    /\ pure_in.fn = "get_device_info"
    /\ ~pure_out.done
    /\ pure_out' =
        [done |-> TRUE,
         info |-> run_queries(get_device_info(pure_in.id, "Unknown"), 1, pure_in.outs)]
    /\ UNCHANGED <<pure_in, scan_in, scan_out, connVars, monVars, appVars, loopVars>>

InitInfo ==
    /\ pure_in \in InfoCalls
    /\ pure_out = [done |-> FALSE]
    /\ ScanIdle
    /\ ConnIdle /\ MonIdle /\ AppIdle

NextInfo == CallGetDeviceInfo

SpecInfo == InitInfo /\ [][NextInfo]_vars

AllInfoFields ==
    {"device_id", "connection_type", "status"}
        \cup UNION {QueryFields(Queries[k]) : k \in DOMAIN Queries}

\* C22: each sub-query of get_device_info fails on its own: a sub-query that
\* fails (non-zero exit, timeout, other exception) leaves the sentinel in its
\* own field only, every later sub-query still runs and fills its field, and
\* the dict returned holds every field.
C22_SubQueriesFailAlone ==
    pure_out.done =>
        /\ DOMAIN pure_out.info = AllInfoFields
        /\ \A k \in DOMAIN Queries : \A f \in QueryFields(Queries[k]) :
            /\ f \in DOMAIN pure_out.info
            /\ pure_out.info[f] =
                IF pure_in.outs[k] = "ok" THEN "value" ELSE Sentinel(f)

\* ------------------------------------------------- the two same-network tests
\* One NetworkDetector object after detect_pc_network (pc_ip and network_mask
\* set, the mask being the first of common_masks) or before it (both None),
\* asked about one address; and PhoneConnectorApp.is_same_network asked about
\* the same pair of addresses.
Numerals == {"0", "1", "2", "5", "7", "10", "168", "192", "200", "256"}

\* ipaddress accepts four decimal octets, none above 255
ParsesIPv4(ip) ==
    /\ Len(ip) = 4
    /\ \A i \in 1..4 : ip[i] \in Numerals /\ OctetVal(ip[i]) <= 255

NoMask == <<>>
MASK16 == <<255, 255, 0, 0>>
MASK8 == <<255, 0, 0, 0>>

\* the string shortcut in the place of the mask-based test
first_three_octets(pc_ip, mask, device_ip) == is_same_network(device_ip, pc_ip)

\* NetworkDetector.is_same_network: false before detection, false when
\* IPv4Network raises, else the equality of the two networks
nd_is_same_network(pc_ip, mask, device_ip) ==
    IF ~Truthy(pc_ip) \/ mask = NoMask THEN FALSE
    ELSE IF ~ParsesIPv4(pc_ip) \/ ~ParsesIPv4(device_ip) THEN FALSE
    ELSE same_subnet(pc_ip, device_ip, mask)

NetAddresses ==
    {PC_IP, IP_SAME, <<"192", "168", "1", "200">>, <<"192", "168", "2", "5">>,
     <<"10", "0", "0", "5">>, <<"192", "168", "1", "256">>,
     <<"192", "168", "1", "abc">>, <<"192", "168", "1">>}

NetCalls ==
    [fn : {"is_same_network"}, pc_ip : {None}, mask : {NoMask},
     device_ip : NetAddresses]
    \cup [fn : {"is_same_network"},
          pc_ip : {PC_IP, <<"10", "0", "0", "5">>, <<"192", "168", "2", "5">>},
          mask : {MASK24}, device_ip : NetAddresses]

CallNetworkDetector ==
    /\ ~pure_out.nd_done
    /\ pure_out' =
        [pure_out EXCEPT
            !.nd_done = TRUE,
            !.nd = nd_is_same_network(pure_in.pc_ip, pure_in.mask, pure_in.device_ip)]
    /\ UNCHANGED <<pure_in, scan_in, scan_out, connVars, monVars, appVars, loopVars>>

CallAppIsSameNetwork ==
    /\ ~pure_out.app_done
    /\ pure_out' =
        [pure_out EXCEPT
            !.app_done = TRUE,
            !.app = is_same_network(pure_in.device_ip, pure_in.pc_ip)]
    /\ UNCHANGED <<pure_in, scan_in, scan_out, connVars, monVars, appVars, loopVars>>

InitNet ==
    /\ pure_in \in NetCalls
    /\ pure_out = [nd_done |-> FALSE, nd |-> FALSE, app_done |-> FALSE, app |-> FALSE]
    /\ ScanIdle
    /\ ConnIdle /\ MonIdle /\ AppIdle

NextNet == CallNetworkDetector \/ CallAppIsSameNetwork

SpecNet == InitNet /\ [][NextNet]_vars

\* the octets a mask of 255s and 0s keeps
PrefixOctets(mask) == {i \in 1..4 : mask[i] = 255}

\* both addresses parse and agree, as numbers, on the octets the mask keeps
SameAtMask(ip1, ip2, mask) ==
    /\ ParsesIPv4(ip1)
    /\ ParsesIPv4(ip2)
    /\ \A i \in PrefixOctets(mask) : OctetVal(ip1[i]) = OctetVal(ip2[i])

\* C24: NetworkDetector.is_same_network(device_ip) is true exactly when the
\* host's network and the device's network at the detected mask are equal
\* (192.168.1.5 and 192.168.1.200 at 255.255.255.0: true; 192.168.1.5 and
\* 192.168.2.5: false); it is false when the host network was not detected
\* or an address does not parse.
C24_SameNetworkAtDetectedMask ==
    pure_out.nd_done =>
        /\ pure_out.nd <=>
            /\ Truthy(pure_in.pc_ip)
            /\ pure_in.mask # NoMask
            /\ SameAtMask(pure_in.pc_ip, pure_in.device_ip, pure_in.mask)
        /\ (pure_in.pc_ip = PC_IP /\ pure_in.device_ip = <<"192", "168", "1", "200">>)
                => pure_out.nd
        /\ (pure_in.pc_ip = PC_IP /\ pure_in.device_ip = <<"192", "168", "2", "5">>)
                => ~pure_out.nd

\* the detector answered for an address that agrees with the host's on three
\* octets and does not parse
C24_Witness ==
    /\ pure_out.nd_done
    /\ pure_in.pc_ip = PC_IP
    /\ pure_in.device_ip = <<"192", "168", "1", "256">>
    /\ ~pure_out.nd

\* C25: the same-subnet decision of the orchestration layer is the mask-based
\* comparison: for every pair of IPv4 addresses and each of the masks
\* 255.255.255.0, 255.255.0.0 and 255.0.0.0, PhoneConnectorApp.is_same_network
\* gives what comparing both networks at that mask gives.
C25_AppDecisionIsMaskBased ==
    (/\ pure_out.app_done
     /\ ParsesIPv4(pure_in.pc_ip)
     /\ ParsesIPv4(pure_in.device_ip)) =>
        \A mask \in {MASK24, MASK16, MASK8} :
            pure_out.app <=> same_subnet(pure_in.device_ip, pure_in.pc_ip, mask)

\* ------------------------------------------- wifi_config.json, load and save
\* load_wifi_config at startup, then save_wifi_config after successful WiFi
\* connects, called by the Tk thread (auto_connect_device), the 10-second
\* auto-detection thread and the connect thread of handle_connect_wifi.  A
\* save is three steps of its thread: the value of the dict display of lines
\* 865-870 (which reads connection_count), the assignment to self.wifi_config,
\* and the json.dump of self.wifi_config into the file.  pure_in holds what
\* the file held at startup.
Digits == <<"0", "1", "2", "3", "4", "5", "6", "7", "8", "9">>

\* json.dump of a str and of a small int
JStr(s) == <<"\"">> \o s \o <<"\"">>
JInt(n) == <<Digits[n + 1]>>

\* json.load of one value
json_value(text) ==
    IF Head(text) = "\""
    THEN [t |-> "str", v |-> SubSeq(text, 2, Len(text) - 1)]
    ELSE [t |-> "int", v |-> (CHOOSE k \in DOMAIN Digits : Digits[k] = Head(text)) - 1]

Absent == [t |-> "absent", v |-> 0]
EmptyDict ==
    [kind |-> "dict", last_ip |-> Absent, last_port |-> Absent,
     connection_count |-> Absent]

\* json.dump(self.wifi_config, f)
json_dump(cfg) ==
    [kind |-> "object",
     last_ip |-> JStr(cfg.last_ip.v),
     last_port |-> JStr(cfg.last_port.v),
     connection_count |-> JInt(cfg.connection_count.v)]

\* a loader whose except clause does not reset the config
load_keeps_unparsed(file) ==
    IF file.kind = "object"
    THEN [kind |-> "dict",
          last_ip |-> json_value(file.last_ip),
          last_port |-> json_value(file.last_port),
          connection_count |-> json_value(file.connection_count)]
    ELSE IF file.kind = "absent" THEN [kind |-> "dict", last_ip |-> Absent,
                                       last_port |-> Absent,
                                       connection_count |-> Absent]
    ELSE [kind |-> "list"]

\* load_wifi_config, lines 851-860: {} when the file is absent or json.load
\* raises, else whatever JSON value the file holds
load_wifi_config(file) ==
    IF file.kind = "object"
    THEN [kind |-> "dict",
          last_ip |-> json_value(file.last_ip),
          last_port |-> json_value(file.last_port),
          connection_count |-> json_value(file.connection_count)]
    ELSE IF file.kind = "array" THEN [kind |-> "list"]
    ELSE EmptyDict

\* what wifi_config.json can hold at startup: nothing, text that is not JSON,
\* a JSON array, what an earlier run saved, and an object whose
\* connection_count is a string
StartupFiles ==
    {[kind |-> "absent"], [kind |-> "garbage"], [kind |-> "array"],
     json_dump([last_ip |-> [t |-> "str", v |-> IP_OTHER],
                last_port |-> [t |-> "str", v |-> <<PORT>>],
                connection_count |-> [t |-> "int", v |-> 1]]),
     [kind |-> "object", last_ip |-> JStr(IP_OTHER), last_port |-> JStr(<<PORT>>),
      connection_count |-> JStr(<<"3">>)]}

\* line 869: self.wifi_config.get('connection_count', 0) + 1
count_plus_one(cfg) ==
    IF cfg.kind # "dict" THEN [raised |-> TRUE, count |-> 0]
    ELSE IF cfg.connection_count.t = "absent" THEN [raised |-> FALSE, count |-> 1]
    ELSE IF cfg.connection_count.t = "int"
    THEN [raised |-> FALSE, count |-> cfg.connection_count.v + 1]
    ELSE [raised |-> TRUE, count |-> 0]

IdleSaver == [pc |-> "idle", ip |-> None, count |-> 0, done |-> 0]

\* successful WiFi connects whose save_wifi_config call has returned, and
\* those whose call has begun
SavesDone == worker["tk"].done + worker["loop"].done + worker["btn"].done
SavesBegun == SavesDone + Cardinality({t \in Workers : worker[t].pc # "idle"})

Saved(t, ip, raised) ==
    [NoAttempt EXCEPT !.fresh = TRUE, !.by = t, !.ip = ip, !.raised = raised,
                      !.outcome = "saved"]

CfgOthers ==
    <<app_connected_devices, cm_connected_devices, last_devices, tk_queue,
      lastTick, connVars, monVars, pureVars, loopVars>>

\* lines 865-869: the values of the dict display; an exception takes the
\* thread to the except clause of line 876 and the call returns
SaveBegin(t, ip) ==
    LET r == count_plus_one(wifi_config)
    IN /\ worker[t].pc = "idle"
       /\ SavesBegun < MaxSaves
       /\ worker' = [worker EXCEPT ![t] =
              IF r.raised THEN [@ EXCEPT !.done = @ + 1]
              ELSE [@ EXCEPT !.pc = "assign", !.ip = ip, !.count = r.count]]
       /\ lastAttempt' = IF r.raised THEN Saved(t, ip, TRUE) ELSE NoAttempt
       /\ UNCHANGED <<wifi_config, wifi_file, CfgOthers>>

\* line 865: self.wifi_config = {...}
SaveAssign(t) ==
    /\ worker[t].pc = "assign"
    /\ wifi_config' =
          [kind |-> "dict",
           last_ip |-> [t |-> "str", v |-> worker[t].ip],
           last_port |-> [t |-> "str", v |-> <<PORT>>],
           connection_count |-> [t |-> "int", v |-> worker[t].count]]
    /\ worker' = [worker EXCEPT ![t].pc = "write"]
    /\ lastAttempt' = NoAttempt
    /\ UNCHANGED <<wifi_file, CfgOthers>>

\* lines 872-877: json.dump(self.wifi_config, f); an error of open() is
\* caught and logged and the file keeps what it held
SaveWrite(t, written) ==
    /\ worker[t].pc = "write"
    /\ wifi_file' = IF written THEN json_dump(wifi_config) ELSE wifi_file
    /\ worker' = [worker EXCEPT ![t] = [IdleSaver EXCEPT !.done = worker[t].done + 1]]
    /\ lastAttempt' = Saved(t, worker[t].ip, FALSE)
    /\ UNCHANGED <<wifi_config, CfgOthers>>

\* check_network_status, lines 881-915, the thread __init__ starts right after
\* load_wifi_config: it reads self.wifi_config.get('last_ip') inside a try
\* whose except clause logs; pc is what detect_pc_network() found ('' when
\* nothing was detected)
network_check(cfg, pc) ==
    IF pc = <<>> THEN [raised |-> FALSE, guidance |-> "no_pc_network"]
    ELSE IF cfg.kind # "dict" THEN [raised |-> TRUE, guidance |-> "error"]
    ELSE IF cfg.last_ip.t = "absent" \/ cfg.last_ip.v = <<>>
    THEN [raised |-> FALSE, guidance |-> "no_previous"]
    ELSE IF is_same_network(cfg.last_ip.v, pc)
    THEN [raised |-> FALSE, guidance |-> "same_network"]
    ELSE [raised |-> FALSE, guidance |-> "different_network"]

NetworkCheck(pc) ==
    LET r == network_check(wifi_config, pc)
    IN /\ pure_out = NoOutput
       /\ pure_out' = [fn |-> "check_network_status", raised |-> r.raised,
                       guidance |-> r.guidance]
       /\ UNCHANGED <<pure_in, scan_in, scan_out, wifi_config, wifi_file, worker,
                      lastAttempt, app_connected_devices, cm_connected_devices,
                      last_devices, tk_queue, lastTick, connVars, monVars,
                      loopVars>>

InitCfg ==
    /\ pure_in \in [fn : {"load_wifi_config"}, file : StartupFiles]
    /\ pure_out = NoOutput
    /\ ScanIdle
    /\ wifi_file = pure_in.file
    /\ wifi_config = load_wifi_config(pure_in.file)
    /\ worker = [t \in Workers |-> IdleSaver]
    /\ app_connected_devices = <<>>
    /\ cm_connected_devices = {}
    /\ last_devices = {}
    /\ tk_queue = <<>>
    /\ lastTick = NoTick
    /\ lastAttempt = NoAttempt
    /\ poll_pc = "try"
    /\ detect_pc = "try"
    /\ ConnIdle /\ MonIdle

NextCfg ==
    \/ \E t \in Workers, ip \in {IP_SAME, <<"10", "0", "0", "5">>} : SaveBegin(t, ip)
    \/ \E t \in Workers : SaveAssign(t)
    \/ \E t \in Workers, written \in BOOLEAN : SaveWrite(t, written)
    \/ \E pc \in {<<>>, PC_IP} : NetworkCheck(pc)

SpecCfg == InitCfg /\ [][NextCfg]_vars

\* C29: after save_wifi_config(ip, port) following a successful WiFi connect,
\* load_wifi_config at the next startup gives a config with last_ip == ip and
\* last_port == port, whatever the config held before.
C29_SaveThenLoad ==
    (lastAttempt.fresh /\ lastAttempt.outcome = "saved") =>
        LET cfg == load_wifi_config(wifi_file)
        IN /\ cfg.kind = "dict"
           /\ cfg.last_ip.t = "str"
           /\ cfg.last_ip.v = lastAttempt.ip
           /\ cfg.last_port.t = "str"
           /\ cfg.last_port.v = <<PORT>>

\* the connection_count a config holds, 0 when it holds none
CountOf(cfg) ==
    IF cfg.kind = "dict" /\ cfg.connection_count.t = "int"
    THEN cfg.connection_count.v
    ELSE 0

\* C30: connection_count is the number of successful WiFi connects performed
\* so far, each adding exactly 1 to what was loaded at startup, for every
\* interleaving of the save_wifi_config calls of the three threads.
C30_CountIsSuccesses ==
    (\A t \in Workers : worker[t].pc = "idle") =>
        CountOf(wifi_config) = CountOf(load_wifi_config(pure_in.file)) + SavesDone

\* C31: a wifi_config.json that is missing or that json.load cannot parse is
\* no prior config: load_wifi_config leaves self.wifi_config == {}, and the
\* network status check and every save_wifi_config after it run without an
\* exception.
C31_UnreadableFileIsNoConfig ==
    (pure_in.file.kind \in {"absent", "garbage"}) =>
        /\ load_wifi_config(pure_in.file) = EmptyDict
        /\ (pure_out # NoOutput => ~pure_out.raised)
        /\ (lastAttempt.fresh /\ lastAttempt.outcome = "saved" => ~lastAttempt.raised)

C31_Witness ==
    /\ pure_in.file.kind = "garbage"
    /\ pure_out # NoOutput
    /\ pure_out.guidance = "different_network"
    /\ lastAttempt.fresh /\ lastAttempt.outcome = "saved"
    /\ SavesDone = 2

\* ------------------------------- further properties of connect_device
\* C35: a USB connect (connect_device with connection_type usb, through
\* DeviceManager.connect_usb) returns true only if the echo command against
\* that device was run during the call and exited 0.
C35_UsbTrueOnlyAfterEcho ==
    (/\ lastCall.fresh
     /\ lastCall.op = "connect_device"
     /\ lastCall.ctype = "usb"
     /\ lastCall.result = TRUE) => lastCall.echo_run

\* C37: after connect_device succeeds, for either transport, the connected
\* identifier is a member of the connected set the monitor checks, so the
\* monitor started by that connect does not clear the current device or fire
\* on_device_disconnected while no disconnect call or rescan removed it.
C37_ConnectedIdIsRegistered ==
    (/\ lastCall.fresh
     /\ lastCall.op = "connect_device"
     /\ lastCall.result = TRUE) =>
        /\ InList(lastCall.id, dm_connected_devices)
        /\ \A t \in Threads :
              mon_pc[t] = "while" =>
                 monitor_pass(Work, t, "Connected").current_device = lastCall.id

\* ------------------------------------------------------- ADBFinder.find_adb
\* A path is the sequence of its components; a relative path starts with a
\* name, an absolute one with "/" or a drive.  The environment says, for each
\* place of the candidate list, whether a file is there and what running
\* [path, "version"] does: the exception subprocess.run raises or the exit
\* code and the words of stdout.
Banner == <<"Android", "Debug", "Bridge">>

\* _get_platform_paths, lines 20-48
get_platform_paths(system) ==
    IF system = "windows"
    THEN << <<"adb">>,
            <<"C:", "Users", "u", "AppData", "Local", "Android", "Sdk", "platform-tools", "adb.exe">>,
            <<"C:", "Android", "Sdk", "platform-tools", "adb.exe">>,
            <<"C:", "Program Files", "Android", "Android Studio", "Sdk", "platform-tools", "adb.exe">>,
            <<"C:", "Program Files (x86)", "Android", "Android Studio", "Sdk", "platform-tools", "adb.exe">> >>
    ELSE IF system = "darwin"
    THEN << <<"adb">>,
            <<"/", "usr", "local", "bin", "adb">>,
            <<"/", "opt", "homebrew", "bin", "adb">>,
            <<"/", "Users", "u", "Library", "Android", "sdk", "platform-tools", "adb">>,
            <<"/", "Applications", "Android Studio.app", "Contents", "sdk", "platform-tools", "adb">> >>
    ELSE << <<"adb">>,
            <<"/", "usr", "local", "bin", "adb">>,
            <<"/", "opt", "android-sdk", "platform-tools", "adb">>,
            <<"/", "usr", "bin", "adb">>,
            <<"/", "home", "u", "Android", "Sdk", "platform-tools", "adb">> >>

isabs(path) == Head(path) \in {"/", "C:"}

\* a probe that accepts any exit 0
exit_zero_is_valid(path, at) ==
    IF path = <<>> THEN FALSE
    ELSE IF isabs(path) /\ ~at.isfile THEN FALSE
    ELSE IF at.raises # "nothing" THEN FALSE
    ELSE at.returncode = 0

\* _is_valid_adb, lines 51-72
is_valid_adb(path, at) ==
    IF path = <<>> THEN FALSE
    ELSE IF isabs(path) /\ ~at.isfile THEN FALSE
    ELSE IF at.raises # "nothing" THEN FALSE
    ELSE at.returncode = 0 /\ Contains(at.stdout, Banner)

\* find_adb, lines 12-18: the loop over possible_paths from place i on
RECURSIVE find_from(_, _, _)
find_from(paths, env, i) ==
    IF i > Len(paths) THEN None
    ELSE IF is_valid_adb(paths[i], env[i]) THEN paths[i]
    ELSE find_from(paths, env, i + 1)

find_adb(system, env) == find_from(get_platform_paths(system), env, 1)

\* what can be at one place: no file; a file whose run raises; a run that
\* ends with an exit code and an output
ProbeRuns ==
    {[isfile |-> FALSE, raises |-> "FileNotFoundError", returncode |-> 1, stdout |-> <<>>],
     [isfile |-> TRUE, raises |-> "TimeoutExpired", returncode |-> 1, stdout |-> <<>>],
     [isfile |-> TRUE, raises |-> "PermissionError", returncode |-> 1, stdout |-> <<>>],
     [isfile |-> TRUE, raises |-> "nothing", returncode |-> 0,
      stdout |-> <<"Android", "Debug", "Bridge", "version", "1.0.41">>],
     [isfile |-> TRUE, raises |-> "nothing", returncode |-> 0, stdout |-> <<"usage:", "adb">>],
     [isfile |-> TRUE, raises |-> "nothing", returncode |-> 1,
      stdout |-> <<"Android", "Debug", "Bridge", "version", "1.0.41">>]}

FindCalls ==
    [fn : {"find_adb"}, system : {"windows", "darwin", "linux"},
     env : [1..5 -> ProbeRuns]]

CallFindAdb ==
    /\ ~pure_out.done
    /\ pure_out' = [done |-> TRUE, path |-> find_adb(pure_in.system, pure_in.env)]
    /\ UNCHANGED <<pure_in, scan_in, scan_out, connVars, monVars, appVars, loopVars>>

InitFind ==
    /\ pure_in \in FindCalls
    /\ pure_out = [done |-> FALSE, path |-> None]
    /\ ScanIdle
    /\ ConnIdle /\ MonIdle /\ AppIdle

NextFind == CallFindAdb

SpecFind == InitFind /\ [][NextFind]_vars

\* the places whose file is there (or whose path is relative) and whose
\* version run ended with exit code 0 and the banner in its output
Validates(system, env) ==
    {i \in 1..5 :
        /\ isabs(get_platform_paths(system)[i]) => env[i].isfile
        /\ env[i].raises = "nothing"
        /\ env[i].returncode = 0
        /\ Contains(env[i].stdout, Banner)}

\* C32: find_adb returns the first candidate of the platform's list whose
\* version probe exits 0 with "Android Debug Bridge" in its output, and None
\* when no candidate validates (a probe that times out or a missing file
\* included).
C32_FirstValidCandidate ==
    pure_out.done =>
        LET ok == Validates(pure_in.system, pure_in.env)
        IN IF ok = {} THEN pure_out.path = None
           ELSE \E i \in ok :
                   /\ \A j \in ok : i <= j
                   /\ pure_out.path = get_platform_paths(pure_in.system)[i]

C32_Witness ==
    /\ pure_out.done
    /\ pure_in.system = "linux"
    /\ pure_in.env[1].raises = "FileNotFoundError"
    /\ pure_in.env[2].raises = "TimeoutExpired"
    /\ pure_in.env[3].raises = "nothing" /\ pure_in.env[3].returncode = 0
    /\ ~Contains(pure_in.env[3].stdout, Banner)
    /\ ~pure_in.env[4].isfile
    /\ pure_in.env[5].raises = "nothing" /\ pure_in.env[5].returncode = 0
    /\ Contains(pure_in.env[5].stdout, Banner)
    /\ pure_out.path = <<"/", "home", "u", "Android", "Sdk", "platform-tools", "adb">>

\* ------------------------------------ NetworkDetector.scan_network_for_devices
\* One call, at statement grain, with its probe threads.  pure_out holds the
\* caller's position (pc), the next host of network.hosts(), the list
\* `threads`, the index of the thread being joined and the state of every
\* probe: "new" (not started), "run2" and "run1" (in connect_ex with up to 2
\* and up to 1 second of the socket timeout left) and "done".  Time passes in
\* steps of one second, and only while the caller is blocked in a join: the
\* caller's own statements take no time.
Hosts == 2 * WaveLimit + 1

InFlight == {h \in 1..Hosts : pure_out.probe[h] \in {"run2", "run1"}}

ScanOthers == <<pure_in, scan_in, scan_out, connVars, monVars, appVars, loopVars>>

\* lines 87-88: if not self.network_range: return []
ScanCheck ==
    /\ pure_out.pc = "check"
    /\ pure_out' = [pure_out EXCEPT !.pc = IF pure_in.has_range THEN "for" ELSE "returned"]
    /\ UNCHANGED ScanOthers

\* lines 115-119: the next host gets a thread, started and appended to threads;
\* after the last host the caller goes to the joins of line 127
ForNext ==
    /\ pure_out.pc = "for"
    /\ pure_out' =
          IF pure_out.next > Hosts
          THEN [pure_out EXCEPT !.pc = "final", !.k = 1]
          ELSE [pure_out EXCEPT !.pc = "limit",
                                !.probe[pure_out.next] = "run2",
                                !.threads = Append(@, pure_out.next),
                                !.next = @ + 1]
    /\ UNCHANGED ScanOthers

\* line 122: if len(threads) >= 50
LimitTest ==
    /\ pure_out.pc = "limit"
    /\ pure_out' =
          IF Len(pure_out.threads) >= WaveLimit
          THEN [pure_out EXCEPT !.pc = "join", !.k = 1]
          ELSE [pure_out EXCEPT !.pc = "for"]
    /\ UNCHANGED ScanOthers

\* lines 123-125 and 128-129: t.join(timeout=1) of a thread that has ended
\* returns at once; after the last join the list is emptied (line 125) or the
\* call returns (line 131)
Join ==
    /\ pure_out.pc \in {"join", "final"}
    /\ IF pure_out.k > Len(pure_out.threads)
       THEN pure_out' =
               IF pure_out.pc = "join"
               THEN [pure_out EXCEPT !.pc = "for", !.threads = <<>>, !.k = 0]
               ELSE [pure_out EXCEPT !.pc = "returned"]
       ELSE /\ pure_out.probe[pure_out.threads[pure_out.k]] = "done"
            /\ pure_out' = [pure_out EXCEPT !.k = @ + 1]
    /\ UNCHANGED ScanOthers

\* lines 96-99: connect_ex returns (open, refused or unreachable) before the
\* socket timeout of 2 seconds
ProbeReturns(h) ==
    /\ pure_out.probe[h] \in {"run2", "run1"}
    /\ pure_out' = [pure_out EXCEPT !.probe[h] = "done"]
    /\ UNCHANGED ScanOthers

\* one second passes while the caller waits in t.join(timeout=1) for a thread
\* that has not ended: the join returns, and every connect_ex is one second
\* nearer to its timeout (sock.settimeout(2), line 97)
Tick ==
    /\ pure_out.pc \in {"join", "final"}
    /\ pure_out.k <= Len(pure_out.threads)
    /\ pure_out.probe[pure_out.threads[pure_out.k]] # "done"
    /\ pure_out' =
          [pure_out EXCEPT
              !.k = @ + 1,
              !.probe = [h \in 1..Hosts |->
                            IF pure_out.probe[h] = "run2" THEN "run1"
                            ELSE IF pure_out.probe[h] = "run1" THEN "done"
                            ELSE pure_out.probe[h]]]
    /\ UNCHANGED ScanOthers

InitWave ==
    /\ pure_in \in [fn : {"scan_network_for_devices"}, has_range : BOOLEAN]
    /\ pure_out = [pc |-> "check", next |-> 1, threads |-> <<>>, k |-> 0,
                   probe |-> [h \in 1..Hosts |-> "new"]]
    /\ ScanIdle
    /\ ConnIdle /\ MonIdle /\ AppIdle

NextWave ==
    \/ ScanCheck
    \/ ForNext
    \/ LimitTest
    \/ Join
    \/ \E h \in 1..Hosts : ProbeReturns(h)
    \/ Tick

SpecWave == InitWave /\ [][NextWave]_vars

\* C33: during scan_network_for_devices at most 50 probes (WaveLimit here)
\* are in flight at any moment, and a wave is started only after every probe
\* of the wave before it has finished: every probe in flight belongs to the
\* current list of threads.
C33_AtMostOneWaveInFlight ==
    pure_out.pc # "returned" =>
        /\ Cardinality(InFlight) <= WaveLimit
        /\ \A h \in InFlight : \E i \in 1..Len(pure_out.threads) : pure_out.threads[i] = h

\* ------------------------------------------- bridge invocations and timeouts
\* One operation of the core as the sequence of subprocess.run calls it
\* makes, each with the timeout= it passes (0 where it passes none).  The
\* bridge process of a call either ends with an exit code or does not end;
\* subprocess.run raises TimeoutExpired when a timeout was passed and it ran
\* out, and every operation catches that in the except clause that ends it.
Run(cmd, timeout) == [cmd |-> cmd, timeout |-> timeout]

\* device_manager.py:56-142, the eight sub-queries of get_device_info
InfoRuns ==
    <<Run("getprop ro.product.model", 10), Run("getprop ro.build.version.release", 10),
      Run("getprop ro.product.manufacturer", 10), Run("ip route", 10),
      Run("dumpsys battery", 10), Run("settings get global adb_enabled", 10),
      Run("settings get global adb_wifi_enabled", 10), Run("getprop ro.serialno", 10)>>

Invocations(op) ==
    IF op = "scan_devices"
    THEN <<Run("kill-server", 0), Run("start-server", 0), Run("devices", 0)>>
    ELSE IF op = "get_device_info" THEN InfoRuns
    ELSE IF op = "connect_usb" THEN <<Run("shell echo Connected", 10)>> \o InfoRuns
    ELSE IF op = "connect_wifi" THEN <<Run("connect", 15)>>
    ELSE IF op = "disconnect_device" THEN <<Run("disconnect", 0)>>
    ELSE IF op = "is_device_available" THEN <<Run("shell echo test", 5)>>
    ELSE <<Run("devices", 10)>>

BridgeOps ==
    {"scan_devices", "get_device_info", "connect_usb", "connect_wifi",
     "disconnect_device", "is_device_available", "monitor_devices"}

\* the process of the call at pc ends with exit code rc; connect_usb returns
\* False after an echo that failed (line 182), every other call goes on to
\* the next one and returns after the last
BridgeRun(rc) ==
    LET runs == Invocations(pure_in.op)
        last == \/ pure_out.pc = Len(runs)
                \/ pure_in.op = "connect_usb" /\ pure_out.pc = 1 /\ rc # 0
    IN /\ pure_out.at = "ready"
       /\ pure_out' = [pure_out EXCEPT
              !.log = Append(@, rc),
              !.pc = IF last THEN @ ELSE @ + 1,
              !.at = IF last THEN "returned" ELSE "ready"]
       /\ UNCHANGED ScanOthers

\* the process of the call at pc does not end
BridgeHangs ==
    /\ pure_out.at = "ready"
    /\ pure_out' = [pure_out EXCEPT !.at = "waiting"]
    /\ UNCHANGED ScanOthers

\* the timeout of the call runs out: TimeoutExpired, caught by the except
\* clause of the operation, which returns
TimeoutExpired ==
    /\ pure_out.at = "waiting"
    /\ Invocations(pure_in.op)[pure_out.pc].timeout > 0
    /\ pure_out' = [pure_out EXCEPT !.log = Append(@, "TimeoutExpired"), !.at = "returned"]
    /\ UNCHANGED ScanOthers

InitBridge ==
    /\ pure_in \in [op : BridgeOps]
    /\ pure_out = [pc |-> 1, at |-> "ready", log |-> <<>>]
    /\ ScanIdle
    /\ ConnIdle /\ MonIdle /\ AppIdle

NextBridge ==
    \/ \E rc \in {0, 1} : BridgeRun(rc)
    \/ BridgeHangs
    \/ TimeoutExpired

\* a process that ends is seen to end, and a timeout that was passed runs out
SpecBridge ==
    /\ InitBridge /\ [][NextBridge]_vars
    /\ WF_vars(\E rc \in {0, 1} : BridgeRun(rc))
    /\ WF_vars(TimeoutExpired)

\* C34: every invocation of the bridge made by the core (listing, property
\* reads, connect, disconnect, kill-server/start-server) has a timeout, so
\* each operation eventually returns even when a bridge process never ends.
C34_EveryOperationReturns == <>(pure_out.at = "returned")

\* ------------------------------- refresh_device_info, statement by statement
\* The monitor thread of SpecMon with the refresh of lines 166-167 split into
\* its statements: "sleep" (line 165) is followed by the test of line 166,
\* then "refresh" (line 117), "get" (line 121, the argument self.current_device
\* is read and get_device_info is called), "assign" (line 121, the result is
\* stored) and "notify" (lines 124-125).  pure_out holds, for each thread, the
\* dict its get_device_info call returned until it is stored, and the
\* identifiers passed to the last on_device_info_updated invocation and to
\* the monitor's last on_device_disconnected invocation.  The client calls
\* connect_device when every monitor thread of an earlier connect has ended
\* or is about to invoke its callback.
NoUpdate == [fired |-> FALSE, id |-> None]

RefreshOthers == <<pure_in, scan_in, scan_out, lastCall, monVars, appVars, loopVars>>

\* lines 165-166: the sleep ends; if self.monitoring and self.current_device
SleepEnds(t) ==
    /\ mon_pc[t] = "sleep"
    /\ mon_pc' = [mon_pc EXCEPT ![t] =
                    IF monitoring /\ Truthy(current_device) THEN "refresh" ELSE "while"]
    /\ UNCHANGED <<dm_connected_devices, dm_device_info, current_device,
                   current_device_info, monitoring, monitor_thread, pure_out,
                   RefreshOthers>>

\* lines 117-118: if not self.current_device: return None
RefreshTest(t) ==
    /\ mon_pc[t] = "refresh"
    /\ mon_pc' = [mon_pc EXCEPT ![t] =
                    IF Truthy(current_device) THEN "get" ELSE "while"]
    /\ UNCHANGED <<dm_connected_devices, dm_device_info, current_device,
                   current_device_info, monitoring, monitor_thread, pure_out,
                   RefreshOthers>>

\* line 121, right-hand side: get_device_info(self.current_device), which
\* caches the dict it built (device_manager.py:154); with None as argument
\* "':' in device_id" raises TypeError (device_manager.py:50), caught at line
\* 129 of refresh_device_info
RefreshGet(t, st) ==
    /\ mon_pc[t] = "get"
    /\ IF current_device = None
       THEN /\ mon_pc' = [mon_pc EXCEPT ![t] = "while"]
            /\ UNCHANGED <<dm_device_info, pure_out>>
       ELSE /\ mon_pc' = [mon_pc EXCEPT ![t] = "assign"]
            /\ dm_device_info' =
                  CachePut(dm_device_info, current_device,
                           get_device_info(current_device, st))
            /\ pure_out' = [pure_out EXCEPT
                               !.got[t] = get_device_info(current_device, st)]
    /\ UNCHANGED <<dm_connected_devices, current_device, current_device_info,
                   monitoring, monitor_thread, RefreshOthers>>

\* line 121, the assignment to self.current_device_info
RefreshAssign(t) ==
    /\ mon_pc[t] = "assign"
    /\ current_device_info' = pure_out.got[t]
    /\ pure_out' = [pure_out EXCEPT !.got[t] = NoInfo]
    /\ mon_pc' = [mon_pc EXCEPT ![t] = "notify"]
    /\ UNCHANGED <<dm_connected_devices, dm_device_info, current_device,
                   monitoring, monitor_thread, RefreshOthers>>

\* lines 124-125: on_device_info_updated(self.current_device,
\* self.current_device_info), both read again
RefreshNotify(t) ==
    /\ mon_pc[t] = "notify"
    /\ pure_out' = [pure_out EXCEPT
                       !.updated = [fired |-> TRUE, id |-> current_device]]
    /\ mon_pc' = [mon_pc EXCEPT ![t] = "while"]
    /\ UNCHANGED <<dm_connected_devices, dm_device_info, current_device,
                   current_device_info, monitoring, monitor_thread, RefreshOthers>>

\* lines 160-162: on_device_disconnected(self.current_device), the attribute
\* read again for the call, then break
MonCallback(t) ==
    /\ mon_pc[t] = "fire"
    /\ disc_fired' = Fired(disc_fired)
    /\ pure_out' = [pure_out EXCEPT !.gone = [fired |-> TRUE, id |-> current_device]]
    /\ mon_pc' = [mon_pc EXCEPT ![t] = "dead"]
    /\ UNCHANGED <<dm_connected_devices, dm_device_info, current_device,
                   current_device_info, monitoring, monitor_thread, pure_in,
                   scan_in, scan_out, lastCall, cl_pc, appVars, loopVars>>

\* the steps of monitor thread t
MonitorStep(t) ==
    \/ MonWhile(t)
    \/ MonCheck(t)
    \/ MonClear(t)
    \/ MonCallback(t)
    \/ SleepEnds(t)
    \/ RefreshTest(t)
    \/ \E st \in InfoStatus : RefreshGet(t, st)
    \/ RefreshAssign(t)
    \/ RefreshNotify(t)

InitRefresh ==
    /\ ConnIdle /\ MonIdle /\ AppIdle /\ ScanIdle
    /\ pure_in = [fn |-> "refresh_device_info"]
    /\ pure_out = [got |-> [t \in Threads |-> NoInfo], updated |-> NoUpdate,
                   gone |-> NoUpdate]

NextRefresh ==
    \/ \E t \in Threads : MonitorStep(t)
    \/ \E d \in ConnIds, ans \in UsbAnswers \cup {NoAnswer}, st \in InfoStatus :
          /\ \A t \in Threads : mon_pc[t] \in {"dead", "fire"}
          /\ ClientConnect(d, ans, st)
    \/ \E d \in ConnIds : ClientDisconnectBegin(d)
    \/ ClientDisconnectAllBegin
    \/ ClientClear
    \/ ClientStop
    \/ ClientJoin
    \/ ClientFire
    \/ \E lines \in Listings({USB1}) : ClientScan(0, lines)

SpecRefresh == InitRefresh /\ [][NextRefresh]_vars

\* C38: in every state outside a running call of the client, current_device
\* None implies current_device_info None, and on_device_info_updated is never
\* invoked with None as identifier, whatever the interleaving of the monitor
\* thread's refresh_device_info with disconnect_device and disconnect_all.
C38_NoInfoWithoutDevice ==
    cl_pc.pc = "idle" =>
        /\ current_device = None => current_device_info = NoInfo
        /\ pure_out.updated.fired => pure_out.updated.id # None

\* ------------------------------------------ the monitor under fair scheduling
\* connect_device and scan_devices of the client, no disconnect call, and the
\* monitor thread at the grain of SpecRefresh; every monitor thread that can
\* take a step eventually takes one (its sleeps end, the bridge calls of
\* get_device_info are bounded by their timeouts).
NextWatch ==
    \/ \E t \in Threads : MonitorStep(t)
    \/ \E d \in ConnIds, ans \in UsbAnswers \cup {NoAnswer}, st \in InfoStatus :
          ClientConnect(d, ans, st)
    \/ \E lines \in Listings({USB1}) : ClientScan(0, lines)

SpecWatch ==
    /\ InitRefresh /\ [][NextWatch]_vars
    /\ \A t \in Threads : WF_vars(MonitorStep(t))

\* the current device is monitored and in the connected set; it is monitored
\* and not in the set
Present ==
    monitoring /\ Truthy(current_device) /\ InList(current_device, dm_connected_devices)
Vanished ==
    monitoring /\ Truthy(current_device) /\ ~InList(current_device, dm_connected_devices)

\* the monitor has cleared the fields, fired on_device_disconnected and ended
Handled ==
    /\ current_device = None
    /\ current_device_info = NoInfo
    /\ ~monitoring
    /\ disc_fired >= 1
    /\ DeadSlots(mon_pc) = Threads

C39_MonitorPassesNone == pure_out.gone.fired => pure_out.gone.id = None

\* ----------------------------------------- the availability check of the GUI
\* connect_device_usb (main.py:424) and handle_restart_tcpip (main.py:1227)
\* ask PhoneConnectorApp.device_manager.is_device_available before they act.
\* handle_scan_devices and the initial scan call
\* ConnectionManager.scan_devices, which fills the registry of the
\* ConnectionManager's own DeviceManager; the application's DeviceManager is
\* written by the WiFi connect threads only (main.py:535-537, 1199-1201).
\* pure_out holds the last availability check: the identifier, whether the
\* most recent scan listed it, the device's answer to the echo, the result.

\* is_device_available, lines 260-272: echo "ok" is exit code 0
is_device_available(l, d, echo) ==
    IF InList(d, l) THEN echo = "ok" ELSE FALSE

\* the check of main.py:424 and 1227 for the identifier selected in the list
AvailabilityCheck(d, echo) ==
    /\ pure_out' =
          [done |-> TRUE, id |-> d, echo |-> echo,
           listed |-> lastCall.op = "scan_devices" /\ InList(d, lastCall.result),
           result |-> is_device_available(app_connected_devices, d, echo)]
    /\ UNCHANGED <<pure_in, scan_in, scan_out, connVars, monVars, appVars, loopVars>>

InitAvail ==
    /\ ConnIdle /\ MonIdle /\ AppIdle /\ ScanIdle
    /\ pure_in = [fn |-> "is_device_available"]
    /\ pure_out = [done |-> FALSE, id |-> None, echo |-> "fail", listed |-> FALSE,
                   result |-> FALSE]

NextAvail ==
    \/ Scan
    \/ BtnThread
    \/ \E written \in BOOLEAN : WorkerAppend("btn", written) /\ UNCHANGED loopVars
    \/ \E d \in {USB1, USB2}, echo \in {"ok", "fail"} : AvailabilityCheck(d, echo)

SpecAvail == InitAvail /\ [][NextAvail]_vars

\* C40: a USB identifier that the most recent scan reported as ready is
\* available to the check made before a GUI USB connect and before a TCP/IP
\* restart whenever the device answers the echo: the registry the check
\* consults holds the identifiers the scan produced.
C40_ScannedDeviceIsAvailable ==
    /\ (pure_out.done /\ pure_out.listed /\ pure_out.echo = "ok") => pure_out.result
    /\ lastCall.op = "scan_devices" =>
          \A i \in DOMAIN lastCall.result :
              InList(lastCall.result[i], app_connected_devices)

================================================================
